---- MODULE Spec2Model ----
(***************************************************************************)
(* State-machine model of the StateBacked client's realtime engine:        *)
(*   - ReconnectingWebSocket (the persistent transport),                   *)
(*   - StateBackedClient.token / refreshToken (the token supplier),        *)
(*   - StateBackedClient.machineInstances.subscribe (subscriptions).       *)
(* Every action is one run-to-completion JavaScript job: a caller's call,  *)
(* a socket event handler, a timer callback or a promise continuation.     *)
(***************************************************************************)
EXTENDS Integers, Sequences, FiniteSets, TLC

\* ---------------------------------------------------------------- bounds
MaxSockets == 3      \* physical sockets the WebSocket constructor may hand out
MaxSubs == 2         \* machineInstances.subscribe calls
MaxUnsubCalls == 2   \* calls of one subscription's unsubscribe function
MaxPings == 1        \* firings of the ping interval callbacks
MaxCalls == 3        \* other API calls that need a token
MaxNow == 4000       \* the clock stops advancing here (ms)
MaxRefreshes == 3    \* invocations of refreshToken
MaxFrames == 2       \* frames the server sends
MaxObservers == 2    \* observer objects callers attach to the Actor
MaxAttaches == 3     \* calls of Actor.subscribe
MaxUpdates == 2      \* state updates the Actor's subscription delivers
MaxSends == 2        \* calls of Actor.send
MaxErrors == 1       \* errors the Actor's subscription and requests produce
MaxPathLen == 3      \* segments of a dotted string or path array
MaxRacers == 3       \* concurrent getOrCreate calls for one instance
MaxLogs == 3         \* log entries the instance writes
MaxNexts == 4        \* calls of next() on the iterator
BatchSpan == 2       \* timestamps one LogsResponse covers at most

\* ------------------------------------------------------ program constants
ExpirySkewMs == 1000 \* tokenIsExpired: Date.now() - 1_000
TickMs == 1000       \* granularity of the modelled clock
TokenTtlSec == 1     \* lifetime of a token that carries an exp claim

Sockets == 1..MaxSockets
Subs == 1..MaxSubs
Calls == 1..MaxCalls
Callers == 0..MaxCalls   \* caller 0 is the constructor's eager this.token()
NoSocket == 0        \* this.ws === undefined
NoTo == -1           \* filter.to is not given
NoExp == -1          \* undefined tokenExpiration / a JWT without numeric exp
NoToken == [serial |-> 0, exp |-> NoExp]   \* latestToken === undefined

\* Token configuration shapes accepted by the constructor.
ConfigShapes == {"string", "fn", "tokenString", "tokenFn", "idpString", "idpFn"}
CallbackShapes == {"fn", "tokenFn", "idpFn"}
ExchangeShapes == {"idpString", "idpFn"}

\* HTTP statuses the token exchange endpoint may answer with.
ExchangeStatuses == {200, 400, 403, 500}

VARIABLES
  \* ReconnectingWebSocket
  state,            \* "idle" | "connecting" | "closed"
  ws,               \* the socket the transport regards as current, or NoSocket
  listeners,        \* sequence of handlers (a handler is named by its subscription)
  msgQueue,         \* sequence of queued outgoing message objects
  persistentMsgs,   \* sequence of persistent outgoing message objects
  \* physical sockets created by `new this.WS(url)`
  nsock,            \* number of sockets constructed so far
  readyState,       \* per socket: "NONE","CONNECTING","OPEN","CLOSING","CLOSED"
  wire,             \* per socket: sequence of messages written with ws.send
  pingTimer,        \* per socket: "none" | "active" | "cleared" (setInterval of its connect)
  npings,           \* ping interval firings so far
  queued,           \* history: ids of the messages send() has put on msgQueue
  intervals,        \* per socket: setInterval calls made by the onConnect of its open
  stale,            \* history: ids of the messages close() has found queued or persistent
  transports,       \* ReconnectingWebSocket objects the client has constructed
  urlToken,         \* the token in the url the transport was constructed with
  presented,        \* per socket: the token in the url it was constructed with
  \* StateBackedClient
  hasTransport,     \* client.ws has been constructed
  microtasks,       \* the promise job queue: continuations waiting to run, in order
  waiters,          \* subscriptions awaiting the in-flight token promise, in order
  cfg,              \* the shape of tokenConfig
  latestToken, tokenExpiration, inProgress, now,
  refreshCalls,     \* invocations of refreshToken
  sourceCalls,      \* invocations of the configured token callback
  exchangeCalls,    \* POST /tokens requests issued
  lastIssued,       \* the token most recently produced by a successful refresh
  lastRefresh,      \* outcome of the refresh that settled last: "none","ok", or an error name
  callPc, callResult,
  \* machineInstances.subscribe closures
  subPc, subResult, isUnsubscribed, hasWsUnsubscribe, cancelId, unsubCalls, subError,
  \* the arguments of the subscribe calls
  instName,         \* per subscription: its machineInstanceName
  cbKind,           \* per subscription: "plain" | "throws" (what its callbacks do)
  hasOnError,       \* per subscription: an onError callback was passed
  hasSignal,        \* per subscription: an AbortSignal was passed
  \* the AbortSignal of a subscription
  abortListener,    \* per subscription: unsubscribe is registered for "abort"
  aborted,          \* per subscription: the signal has aborted
  \* observations
  abortRuns,        \* per subscription: runs of unsubscribe started by the abort event
  pingBy,           \* the socket whose ping interval fired last, or NoSocket
  nframes,          \* number of frames delivered to ws.onmessage so far
  lastFrame,        \* the frame delivered last
  updates,          \* per subscription: the arguments of its onStateUpdate calls
  errs,             \* per subscription: the arguments of its onError calls
  late,             \* per subscription: calls of its callbacks made after its
                    \* unsubscribe function had run
  \* Actor
  actor,            \* the Actor's fields: state, subscribers, unsubscribe, inFlightEvents
  snapshots,        \* the ActorState objects constructed so far; an object is named by its index
  remoteSubs,       \* calls of client.machineInstances.subscribe made by the Actor
  remoteLive,       \* those of them whose unsubscribe function has not been called
  sendsPending,     \* events of the sendEvent requests awaiting their response
  nsends,           \* calls of Actor.send so far
  nerrors,          \* errors the subscription and the requests have produced so far
  handles,          \* per call of Actor.subscribe: the observer it was given
  obsSends,         \* per observer: its next callback calls actor.send
  obsDetaches,      \* per observer: the observer whose Subscription its next callback ends
  seen,             \* per observer: what its next and error callbacks were called with
  \* matchesState and toStrings
  descriptor,       \* the first argument of matchesState
  stateValue,       \* the state value given to matchesState and to toStrings
  matched,          \* what matchesState returned: "unset" | "yes" | "no"
  states,           \* what toStrings returned
  applied,          \* the functions applied so far
  \* machineInstances.getOrCreate
  exists,           \* server: the instance exists
  gocPc,            \* per call: "idle" | "read" | "create" | "reread" | "done"
  gocResult,        \* per call: "none", "state" (fulfilled) or the error it rejected with
  gocTrace,         \* per call: the requests it made and the statuses they were answered with
  \* logs.watch: one iterator and the server behind it
  watchPc,          \* "idle" (no next() pending) | "requesting" | "waiting" (the idle delay)
  from,             \* the timestamp the next retrieve starts from
  watchTo,          \* filter.to, or NoTo
  logBatch,         \* entries retrieved and not yet yielded
  watchAborted,     \* signal.aborted
  produced,         \* server: the timestamp of the newest log entry
  matching,         \* server: the timestamps of the entries that pass the filter
  retrieved,        \* every entry of every batch retrieve has returned, in order
  yielded,          \* the values next() has fulfilled with, in order
  results           \* how the calls of next() have settled: "value" | "done" | "throw"

wsVars == <<state, ws, listeners, msgQueue, persistentMsgs, nsock, readyState, wire,
            pingTimer, npings, queued, intervals, stale, transports, urlToken, presented,
            hasTransport, microtasks>>
tokVars == <<cfg, latestToken, tokenExpiration, inProgress, now, refreshCalls,
             sourceCalls, exchangeCalls, lastIssued, lastRefresh>>
callVars == <<callPc, callResult>>
subVars == <<subPc, subResult, isUnsubscribed, hasWsUnsubscribe, cancelId, unsubCalls,
             subError, waiters>>
inputVars == <<instName, cbKind, hasOnError>>
sigVars == <<hasSignal, abortListener, aborted, abortRuns>>
frameVars == <<nframes, lastFrame, updates, errs, late>>
actorVars == <<actor, snapshots, remoteSubs, remoteLive, sendsPending, nsends, nerrors,
               handles, obsSends, obsDetaches, seen>>
valueVars == <<descriptor, stateValue, matched, states, applied>>
gocVars == <<exists, gocPc, gocResult, gocTrace>>
watchVars == <<watchPc, from, watchTo, logBatch, watchAborted, produced, matching,
               retrieved, yielded, results>>
facadeVars == <<actorVars, valueVars, gocVars, watchVars>>
clientVars == <<wsVars, tokVars, callVars, subVars, inputVars, sigVars, frameVars, pingBy>>
outsideActor == <<clientVars, valueVars, gocVars, watchVars>>
outsideValues == <<clientVars, actorVars, gocVars, watchVars>>
outsideGetOrCreate == <<clientVars, actorVars, valueVars, watchVars>>
outsideWatch == <<clientVars, actorVars, valueVars, gocVars>>
vars == <<clientVars, facadeVars>>

\* ------------------------------------------------------------- helpers
Range(s) == {s[i] : i \in 1..Len(s)}

RECURSIVE Filter(_, _)
\* Array.prototype.filter with the predicate "element's id differs from id"
Filter(s, id) ==
  IF s = <<>> THEN <<>>
  ELSE IF Head(s).id = id THEN Filter(Tail(s), id)
       ELSE <<Head(s)>> \o Filter(Tail(s), id)

RECURSIVE Without(_, _)
\* Array.prototype.filter((l) => l !== h) on the listener array
Without(s, h) ==
  IF s = <<>> THEN <<>>
  ELSE IF Head(s) = h THEN Without(Tail(s), h)
       ELSE <<Head(s)>> \o Without(Tail(s), h)

RECURSIVE Count(_, _)
\* number of entries of s that are the message object id
Count(s, id) ==
  IF s = <<>> THEN 0
  ELSE (IF Head(s).id = id THEN 1 ELSE 0) + Count(Tail(s), id)

MachineOf(i) == "machine"
\* the instance names the callers choose from; InstanceOf is the default choice
Instances == {"inst-a", "inst-b"}
InstanceOf(i) == IF i % 2 = 1 THEN "inst-a" ELSE "inst-b"

\* Outgoing frames (WSToServerMsg); id is the identity of the JS object.
Msg(type, i, id) ==
  [type |-> type,
   machineName |-> IF i = 0 THEN "" ELSE MachineOf(i),
   machineInstanceName |-> IF i = 0 THEN "" ELSE instName[i],
   requestId |-> i,
   id |-> id]

\* The frames the client creates. Each call creates a new object; its id is
\* unique to the call that creates it.
SubscribeMsg(i) == Msg("subscribe-to-instance", i, i)
UnsubscribeMsg(i, k) ==
  Msg("unsubscribe-from-instance", i, MaxSubs + (i - 1) * MaxUnsubCalls + k)
PingMsg(n) == Msg("ping", 0, MaxSubs * (1 + MaxUnsubCalls) + n)

\* the open event of socket s has been delivered (its onConnect ran)
EverOpened(s) == pingTimer[s] # "none"

\* The mutable program state as one record, so that a handler can be written
\* as the composition of the calls it makes.
World ==
  [state |-> state, ws |-> ws, listeners |-> listeners, msgQueue |-> msgQueue,
   persistentMsgs |-> persistentMsgs, nsock |-> nsock, readyState |-> readyState,
   wire |-> wire, pingTimer |-> pingTimer, queued |-> queued,
   intervals |-> intervals, stale |-> stale, transports |-> transports,
   urlToken |-> urlToken, presented |-> presented,
   hasTransport |-> hasTransport, microtasks |-> microtasks, cfg |-> cfg,
   latestToken |-> latestToken, tokenExpiration |-> tokenExpiration,
   inProgress |-> inProgress, refreshCalls |-> refreshCalls,
   sourceCalls |-> sourceCalls, exchangeCalls |-> exchangeCalls]

Install(w) ==
  /\ state' = w.state
  /\ ws' = w.ws
  /\ listeners' = w.listeners
  /\ msgQueue' = w.msgQueue
  /\ persistentMsgs' = w.persistentMsgs
  /\ nsock' = w.nsock
  /\ readyState' = w.readyState
  /\ wire' = w.wire
  /\ pingTimer' = w.pingTimer
  /\ queued' = w.queued
  /\ intervals' = w.intervals
  /\ stale' = w.stale
  /\ transports' = w.transports
  /\ urlToken' = w.urlToken
  /\ presented' = w.presented
  /\ hasTransport' = w.hasTransport
  /\ microtasks' = w.microtasks
  /\ latestToken' = w.latestToken
  /\ tokenExpiration' = w.tokenExpiration
  /\ inProgress' = w.inProgress
  /\ refreshCalls' = w.refreshCalls
  /\ sourceCalls' = w.sourceCalls
  /\ exchangeCalls' = w.exchangeCalls

\* ------------------------------------------------ ReconnectingWebSocket
\* ws.send(JSON.stringify(msg)) on socket s
WsWrite(w, s, m) == [w EXCEPT !.wire[s] = Append(@, m)]

\* send(msg)
send(w, m) ==
  IF w.ws = NoSocket \/ w.readyState[w.ws] # "OPEN"
  THEN [w EXCEPT !.msgQueue = Append(@, m), !.queued = @ \cup {m.id}]
  ELSE WsWrite(w, w.ws, m)

\* persistentSend(msg); the returned cancel closure is cancel(w, m.id)
persistentSend(w, m) ==
  send([w EXCEPT !.persistentMsgs = Append(@, m)], m)

\* the cancel closure returned by persistentSend
cancel(w, id) == [w EXCEPT !.persistentMsgs = Filter(@, id)]

\* connect(): returns early unless state is "idle"; otherwise constructs a socket
\* with this.url, which starts CONNECTING. A step that would construct more than MaxSockets
\* sockets leaves nsock above the bound and is refused by the actions (Fits).
connect(w) ==
  IF w.state = "connecting" \/ w.state = "closed"
  THEN w
  ELSE LET s == w.nsock + 1
       IN IF s <= MaxSockets
          THEN [w EXCEPT !.state = "connecting", !.nsock = s,
                         !.readyState[s] = "CONNECTING",
                         !.presented[s] = w.urlToken]
          ELSE [w EXCEPT !.state = "connecting", !.nsock = s]

\* addListener(listener)
addListener(w, h) ==
  LET w1 == IF w.state = "closed" THEN connect([w EXCEPT !.state = "idle"]) ELSE w
  IN [w1 EXCEPT !.listeners = Append(@, h)]

\* the ids of the message objects in s
Ids(s) == {s[k].id : k \in 1..Len(s)}

\* close(); msgQueue and persistentMsgs are left as they are
close(w) ==
  LET w1 == [w EXCEPT !.state = "closed",
                      !.stale = @ \cup Ids(w.msgQueue) \cup Ids(w.persistentMsgs)]
      w2 == IF w1.ws # NoSocket /\ w1.readyState[w1.ws] \in {"CONNECTING", "OPEN"}
            THEN [w1 EXCEPT !.readyState[w1.ws] = "CLOSING"]
            ELSE w1
  IN [w2 EXCEPT !.ws = NoSocket]

\* removeListener as it would be if it closed the connection whether or not
\* listeners remain
removeListenerAlwaysCloses(w, h) ==
  close([w EXCEPT !.listeners = Without(@, h)])

\* removeListener(listener)
removeListener(w, h) ==
  LET w1 == [w EXCEPT !.listeners = Without(@, h)]
  IN IF Len(w1.listeners) = 0 THEN close(w1) ELSE w1

RECURSIVE WriteAll(_, _, _)
WriteAll(w, s, ms) ==
  IF ms = <<>> THEN w ELSE WriteAll(WsWrite(w, s, Head(ms)), s, Tail(ms))

\* ws.onopen as it would be without `this.msgQueue.splice(0, this.msgQueue.length)`
onopenKeepsQueue(w, s) ==
  LET w1 == [w EXCEPT !.state = "idle", !.ws = s]
      w2 == WriteAll(w1, s, w1.persistentMsgs \o w1.msgQueue)
  IN [w2 EXCEPT !.pingTimer[s] = "active", !.intervals[s] = @ + 1]

\* ws.onopen of socket s (set in connect); onDisconnect = this.onConnect()
\* starts the ping interval
onopen(w, s) ==
  LET w1 == [w EXCEPT !.state = "idle", !.ws = s]
      w2 == WriteAll(w1, s, w1.persistentMsgs \o w1.msgQueue)
      w3 == [w2 EXCEPT !.msgQueue = <<>>]
  IN [w3 EXCEPT !.pingTimer[s] = "active", !.intervals[s] = @ + 1]

\* ws.onclose as it would be without `onDisconnect?.()`
oncloseKeepsTimer(w, s) == connect([w EXCEPT !.ws = NoSocket])

\* ws.onclose of socket s (set in connect); onDisconnect?.() clears the interval
\* its own open started
onclose(w, s) ==
  LET w1 == [w EXCEPT !.ws = NoSocket]
      w2 == IF w1.pingTimer[s] = "active"
            THEN [w1 EXCEPT !.pingTimer[s] = "cleared"]
            ELSE w1
  IN connect(w2)

Fits(w2) == w2.nsock <= MaxSockets /\ w2.refreshCalls <= MaxRefreshes

\* ---------------------------------------------------------- token supplier
\* the string given as tokenConfig / tokenConfig.token
StaticToken == [serial |-> 1, exp |-> NoExp]

\* What the token callback or the exchange endpoint may answer the n-th refresh
\* with: a JWT with or without a numeric exp claim, or the empty string.
SourceTokens(n) ==
  {[serial |-> n, exp |-> NoExp],
   [serial |-> n, exp |-> (now \div 1000) + TokenTtlSec],
   NoToken}

\* an entry of the promise job queue
Job(kind, who) == [kind |-> kind, who |-> who]

\* JavaScript truthiness of a token string
Truthy(tok) == tok.serial # 0

\* tokenIsExpired()
tokenIsExpired(w) ==
  /\ w.tokenExpiration # NoExp
  /\ w.tokenExpiration # 0
  /\ w.tokenExpiration < now - ExpirySkewMs

\* setToken(token)
setToken(w, tok) ==
  [w EXCEPT !.latestToken = tok,
            !.tokenExpiration = IF tok.exp # NoExp THEN tok.exp * 1000 ELSE @]

\* refreshToken() up to its first suspension; inProgress names what the
\* in-flight promise is waiting for.
refreshToken(w) ==
  LET w1 == [w EXCEPT !.refreshCalls = @ + 1]
  IN CASE w.cfg \in {"string", "tokenString"} ->
            [w1 EXCEPT !.inProgress = "static", !.microtasks = Append(@, Job("settle", 0))]
       [] w.cfg \in CallbackShapes ->
            [w1 EXCEPT !.inProgress = "source", !.sourceCalls = @ + 1]
       [] OTHER -> [w1 EXCEPT !.inProgress = "exchange", !.exchangeCalls = @ + 1]

\* token(): cached is TRUE when the resolved promise of the cached token is
\* returned, FALSE when the in-flight promise is returned.
token(w) ==
  IF Truthy(w.latestToken) /\ ~tokenIsExpired(w)
  THEN [w |-> w, cached |-> TRUE]
  ELSE LET w1 == [w EXCEPT !.latestToken = NoToken]
       IN [w |-> IF w1.inProgress = "none" THEN refreshToken(w1) ELSE w1,
           cached |-> FALSE]

\* adaptError(status, ...) for the statuses the exchange endpoint answers with
adaptError(status) ==
  CASE status = 400 -> "ClientError"
    [] status = 403 -> "UnauthorizedError"
    [] status = 404 -> "NotFoundError"
    [] status = 409 -> "ConflictError"
    [] OTHER -> "ApiError"

\* What refreshToken rejects with when the configured callback rejects with
\* raw: tokenConfig() and tokenConfig.token() carry a .catch that rethrows an
\* UnauthorizedError; `await tokenConfig.identityProviderToken()` carries none.
callbackRejection(shape, raw) ==
  IF shape \in {"fn", "tokenFn"} THEN "UnauthorizedError" ELSE raw

Ok(tok) == [ok |-> TRUE, token |-> tok, err |-> ""]
Err(e) == [ok |-> FALSE, token |-> NoToken, err |-> e]
Pending == [ok |-> FALSE, token |-> NoToken, err |-> "pending"]

\* ------------------------------------------------------------ initial state
\* The fields as the constructors leave them, before the constructor's eager
\* this.token() call.
Blank(shape) ==
  [state |-> "closed", ws |-> NoSocket, listeners |-> <<>>, msgQueue |-> <<>>,
   persistentMsgs |-> <<>>, nsock |-> 0,
   readyState |-> [s \in Sockets |-> "NONE"],
   wire |-> [s \in Sockets |-> <<>>],
   pingTimer |-> [s \in Sockets |-> "none"],
   queued |-> {}, intervals |-> [s \in Sockets |-> 0], stale |-> {}, transports |-> 0,
   urlToken |-> NoToken, presented |-> [s \in Sockets |-> NoToken],
   hasTransport |-> FALSE, microtasks |-> <<>>, cfg |-> shape,
   latestToken |-> NoToken, tokenExpiration |-> NoExp, inProgress |-> "none",
   refreshCalls |-> 0, sourceCalls |-> 0, exchangeCalls |-> 0]

\* new StateBackedClient(tokenConfig): the constructor ends with this.token()
InitWith(shapes) ==
  \E shape \in shapes :
    LET w == token(Blank(shape)).w
    IN /\ cfg = shape
       /\ state = w.state /\ ws = w.ws /\ listeners = w.listeners
       /\ msgQueue = w.msgQueue /\ persistentMsgs = w.persistentMsgs
       /\ nsock = w.nsock /\ readyState = w.readyState /\ wire = w.wire
       /\ pingTimer = w.pingTimer /\ queued = w.queued
       /\ intervals = w.intervals /\ stale = w.stale /\ transports = w.transports
       /\ urlToken = w.urlToken /\ presented = w.presented
       /\ npings = 0 /\ hasTransport = w.hasTransport /\ microtasks = w.microtasks
       /\ latestToken = w.latestToken /\ tokenExpiration = w.tokenExpiration
       /\ inProgress = w.inProgress /\ now = 0
       /\ refreshCalls = w.refreshCalls /\ sourceCalls = w.sourceCalls
       /\ exchangeCalls = w.exchangeCalls
       /\ lastIssued = NoToken /\ lastRefresh = "none"
       /\ callPc = [c \in Callers |-> IF c = 0 THEN "awaiting" ELSE "new"]
       /\ callResult = [c \in Callers |-> Pending]
       /\ subPc = [i \in Subs |-> "new"]
       /\ subResult = [i \in Subs |-> Pending]
       /\ isUnsubscribed = [i \in Subs |-> FALSE]
       /\ hasWsUnsubscribe = [i \in Subs |-> FALSE]
       /\ cancelId = [i \in Subs |-> 0]
       /\ unsubCalls = [i \in Subs |-> 0]
       /\ subError = [i \in Subs |-> ""]
       /\ waiters = <<>>

\* A continuation is queued as a microtask: it runs before any socket event,
\* timer or network completion.
MicrotaskPending == microtasks # <<>>

\* the continuation that runs next
NextJob(kind, who) == microtasks # <<>> /\ Head(microtasks) = Job(kind, who)

\* the running continuation leaves the queue
Dequeued(w) == [w EXCEPT !.microtasks = Tail(@)]

RECURSIVE Enqueue(_, _, _)
\* the continuations of the subscriptions in ids are queued in order
Enqueue(q, kind, ids) ==
  IF ids = <<>> THEN q ELSE Enqueue(Append(q, Job(kind, Head(ids))), kind, Tail(ids))

\* ------------------------------------------------- token supplier actions
\* Everyone awaiting the in-flight promise is resumed with its outcome.
SettleWaiters(r) ==
  /\ callPc' = [c \in Callers |-> IF callPc[c] = "awaiting"
                                 THEN (IF r.ok THEN "resolved" ELSE "rejected")
                                 ELSE callPc[c]]
  /\ callResult' = [c \in Callers |-> IF callPc[c] = "awaiting" THEN r ELSE callResult[c]]
  /\ subPc' = [i \in Subs |-> IF subPc[i] = "awaitToken"
                               THEN (IF r.ok THEN "tokenReady" ELSE "tokenFailed")
                               ELSE subPc[i]]
  /\ subResult' = [i \in Subs |-> IF subPc[i] = "awaitToken" THEN r ELSE subResult[i]]
  /\ waiters' = <<>>

\* token(): .then((token) => { setToken(token); inProgressTokenPromise = undefined })
RefreshFulfilled(tok) ==
  /\ Install([setToken(World, tok) EXCEPT
                !.inProgress = "none",
                !.microtasks = Enqueue(IF inProgress = "static" THEN Tail(@) ELSE @,
                                       "token", waiters)])
  /\ lastIssued' = tok
  /\ lastRefresh' = "ok"
  /\ SettleWaiters(Ok(tok))
  /\ UNCHANGED <<npings, pingBy, inputVars, facadeVars, sigVars, frameVars, cfg, now, isUnsubscribed, hasWsUnsubscribe, cancelId,
                 unsubCalls, subError>>

\* the catch handler of token() as it would be without
\* `this.inProgressTokenPromise = undefined`
RefreshRejectedStaysInFlight(e) ==
  /\ Install([World EXCEPT !.microtasks = Enqueue(@, "catch", waiters)])
  /\ lastRefresh' = e
  /\ SettleWaiters(Err(e))
  /\ UNCHANGED <<npings, pingBy, inputVars, facadeVars, sigVars, frameVars, cfg, now, lastIssued, isUnsubscribed, hasWsUnsubscribe,
                 cancelId, unsubCalls, subError>>

\* token(): .catch((err) => { inProgressTokenPromise = undefined; throw err })
RefreshRejected(e) ==
  /\ Install([World EXCEPT !.inProgress = "none",
                           !.microtasks = Enqueue(@, "catch", waiters)])
  /\ lastRefresh' = e
  /\ SettleWaiters(Err(e))
  /\ UNCHANGED <<npings, pingBy, inputVars, facadeVars, sigVars, frameVars, cfg, now, lastIssued, isUnsubscribed, hasWsUnsubscribe,
                 cancelId, unsubCalls, subError>>

\* refreshToken with a string token: the promise is already resolved
StaticSettle ==
  /\ inProgress = "static"
  /\ NextJob("settle", 0)
  /\ RefreshFulfilled(StaticToken)

\* the promise of tokenConfig() / tokenConfig.token() settles
CallbackSettle ==
  /\ inProgress = "source"
  /\ cfg \in {"fn", "tokenFn"}
  /\ \/ \E tok \in SourceTokens(refreshCalls) : RefreshFulfilled(tok)
     \/ RefreshRejected(callbackRejection(cfg, "Error"))

\* the promise of tokenConfig.identityProviderToken() settles:
\* on success refreshToken goes on to this.tokens.exchange
IdpSettle ==
  /\ inProgress = "source"
  /\ cfg = "idpFn"
  /\ \/ /\ Install([World EXCEPT !.inProgress = "exchange", !.exchangeCalls = @ + 1])
        /\ UNCHANGED <<npings, pingBy, inputVars, facadeVars, sigVars, frameVars, cfg, now, lastIssued, lastRefresh, callVars, subVars>>
     \/ RefreshRejected(callbackRejection(cfg, "Error"))

\* this.tokens.exchange: fetch settles and adaptErrors maps the response
ExchangeSettle ==
  /\ inProgress = "exchange"
  /\ ~MicrotaskPending
  /\ \/ \E status \in ExchangeStatuses :
          IF status = 200
          THEN \E tok \in SourceTokens(refreshCalls) : RefreshFulfilled(tok)
          ELSE RefreshRejected(adaptError(status))
     \/ RefreshRejected("TypeError")

\* an API call evaluates `await this.headers`, that is this.token()
ApiCall(c) ==
  /\ callPc[c] = "new"
  /\ LET r == token(World)
     IN /\ Fits(r.w)
        /\ Install(r.w)
        /\ callPc' = [callPc EXCEPT ![c] = IF r.cached THEN "resolved" ELSE "awaiting"]
        /\ callResult' = [callResult EXCEPT ![c] =
                            IF r.cached THEN Ok(latestToken) ELSE Pending]
  /\ UNCHANGED <<npings, pingBy, inputVars, facadeVars, sigVars, frameVars, cfg, now, lastIssued, lastRefresh, subVars>>

\* Date.now() advances
Tick ==
  /\ now < MaxNow
  /\ ~MicrotaskPending
  /\ now' = now + TickMs
  /\ UNCHANGED <<wsVars, pingBy, inputVars, facadeVars, sigVars, frameVars, cfg, latestToken,
                 tokenExpiration, inProgress, refreshCalls,
                 sourceCalls, exchangeCalls, lastIssued, lastRefresh, callVars, subVars>>

\* ------------------------------------------- machineInstances.subscribe
\* subscribe(...): the async body runs up to `await this.token()` inside
\* ensureWebSocketEstablished, and the unsubscribe function is returned.
subscribe(i, sig) ==
  /\ subPc[i] = "new"
  /\ hasSignal' = [hasSignal EXCEPT ![i] = sig]
  /\ abortListener' = [abortListener EXCEPT ![i] = sig]
  /\ LET r == token(World)
     IN /\ Fits(r.w)
        /\ IF r.cached
           THEN /\ Install([r.w EXCEPT !.microtasks = Append(@, Job("token", i))])
                /\ UNCHANGED waiters
           ELSE /\ Install(r.w)
                /\ waiters' = Append(waiters, i)
        /\ subPc' = [subPc EXCEPT ![i] = IF r.cached THEN "tokenReady" ELSE "awaitToken"]
        /\ subResult' = [subResult EXCEPT ![i] =
                           IF r.cached THEN Ok(latestToken) ELSE Pending]
  /\ UNCHANGED <<npings, pingBy, inputVars, facadeVars, aborted, abortRuns, frameVars, cfg, now,
                 lastIssued, lastRefresh, callVars, isUnsubscribed, hasWsUnsubscribe,
                 cancelId, unsubCalls, subError>>

\* subscribe(machineName, machineInstanceName, onStateUpdate, onError)
Subscribe(i) == subscribe(i, FALSE)

\* subscribe(machineName, machineInstanceName, onStateUpdate, onError, signal)
\* with a signal that has not aborted
SubscribeSignal(i) == subscribe(i, TRUE)

\* the fields of a ReconnectingWebSocket that was just constructed with a url
\* carrying tok
NewTransport(w, tok) ==
  [w EXCEPT !.hasTransport = TRUE, !.transports = @ + 1, !.urlToken = tok,
            !.state = "closed", !.ws = NoSocket, !.listeners = <<>>,
            !.msgQueue = <<>>, !.persistentMsgs = <<>>]

\* ensureWebSocketEstablished as it would be without the `if (this.ws)` branch
ensureWebSocketEstablishedAlwaysConstructs(w, h) ==
  addListener(NewTransport(w, subResult[h].token), h)

\* ensureWebSocketEstablished after `await this.token()`, which gave
\* subscription h's continuation its token: addListener(handler) on the
\* transport the client has, or on the one it constructs if it has none.
ensureWebSocketEstablished(w, h) ==
  IF w.hasTransport
  THEN addListener(w, h)
  ELSE addListener(NewTransport(w, subResult[h].token), h)

EnsureResume(i) ==
  /\ subPc[i] = "tokenReady"
  /\ NextJob("token", i)
  /\ LET w2 == ensureWebSocketEstablished(Dequeued(World), i)
     IN /\ Fits(w2)
        /\ Install([w2 EXCEPT !.microtasks = Append(@, Job("ensure", i))])
  /\ subPc' = [subPc EXCEPT ![i] = "awaitEnsure"]
  /\ UNCHANGED <<npings, pingBy, inputVars, facadeVars, sigVars, frameVars, cfg, now, lastIssued, lastRefresh, callVars, subResult,
                 isUnsubscribed, hasWsUnsubscribe, cancelId, unsubCalls, subError,
                 waiters>>

\* subscribe's async body after `await this.ensureWebSocketEstablished(...)`
SubscribeResume(i) ==
  /\ subPc[i] = "awaitEnsure"
  /\ NextJob("ensure", i)
  /\ hasWsUnsubscribe' = [hasWsUnsubscribe EXCEPT ![i] = TRUE]
  /\ IF isUnsubscribed[i]
     THEN /\ Install(removeListener(Dequeued(World), i))
          /\ subPc' = [subPc EXCEPT ![i] = "aborted"]
          /\ UNCHANGED cancelId
     ELSE /\ Install(persistentSend(Dequeued(World), SubscribeMsg(i)))
          /\ subPc' = [subPc EXCEPT ![i] = "subscribed"]
          /\ cancelId' = [cancelId EXCEPT ![i] = SubscribeMsg(i).id]
  /\ UNCHANGED <<npings, pingBy, inputVars, facadeVars, sigVars, frameVars, cfg, now, lastIssued, lastRefresh, callVars, subResult,
                 isUnsubscribed, unsubCalls, subError, waiters>>

\* subscribe's catch block as it would be without `onError?.(err)`
SubscribeCatchSilent(i) ==
  /\ subPc[i] = "tokenFailed"
  /\ NextJob("catch", i)
  /\ Install(Dequeued(World))
  /\ subPc' = [subPc EXCEPT ![i] = "errored"]
  /\ subError' = [subError EXCEPT ![i] = subResult[i].err]
  /\ UNCHANGED <<npings, pingBy, inputVars, facadeVars, sigVars, frameVars, cfg, now, lastIssued, lastRefresh, callVars, subResult,
                 isUnsubscribed, hasWsUnsubscribe, cancelId, unsubCalls, waiters>>

\* subscribe's catch block, entered when `await this.ensureWebSocketEstablished`
\* rejects with what this.token() rejected with: onError?.(err)
SubscribeCatch(i) ==
  /\ subPc[i] = "tokenFailed"
  /\ NextJob("catch", i)
  /\ Install(Dequeued(World))
  /\ subPc' = [subPc EXCEPT ![i] = "errored"]
  /\ subError' = [subError EXCEPT ![i] = subResult[i].err]
  /\ errs' = [errs EXCEPT ![i] = IF hasOnError[i] THEN Append(@, subResult[i].err) ELSE @]
  /\ UNCHANGED <<npings, pingBy, inputVars, facadeVars, sigVars, nframes, lastFrame, updates,
                 late, cfg, now, lastIssued, lastRefresh, callVars, subResult,
                 isUnsubscribed, hasWsUnsubscribe, cancelId, unsubCalls, waiters>>

\* the unsubscribe closure returned by subscribe
unsubscribe(w, i) ==
  LET w1 == IF cancelId[i] # 0 THEN cancel(w, cancelId[i]) ELSE w
      w2 == IF w1.hasTransport
            THEN send(w1, UnsubscribeMsg(i, unsubCalls[i] + 1))
            ELSE w1
  IN IF hasWsUnsubscribe[i] /\ w2.hasTransport THEN removeListener(w2, i) ELSE w2

\* a run of the unsubscribe closure as it would be without
\* `signal?.removeEventListener("abort", unsubscribe)`
RunUnsubscribeKeepsAbortListener(i) ==
  /\ isUnsubscribed' = [isUnsubscribed EXCEPT ![i] = TRUE]
  /\ unsubCalls' = [unsubCalls EXCEPT ![i] = @ + 1]
  /\ Install(unsubscribe(World, i))
  /\ UNCHANGED <<npings, pingBy, inputVars, facadeVars, hasSignal, abortListener, frameVars, cfg,
                 now, lastIssued, lastRefresh, callVars, subPc, subResult,
                 hasWsUnsubscribe, cancelId, subError, waiters>>

\* one run of the unsubscribe closure, whoever calls it
RunUnsubscribe(i) ==
  /\ isUnsubscribed' = [isUnsubscribed EXCEPT ![i] = TRUE]
  /\ abortListener' = [abortListener EXCEPT ![i] = FALSE]
  /\ unsubCalls' = [unsubCalls EXCEPT ![i] = @ + 1]
  /\ Install(unsubscribe(World, i))
  /\ UNCHANGED <<npings, pingBy, inputVars, facadeVars, hasSignal, frameVars, cfg, now, lastIssued,
                 lastRefresh, callVars, subPc, subResult, hasWsUnsubscribe, cancelId,
                 subError, waiters>>

\* the caller calls the function subscribe returned
Unsubscribe(i) ==
  /\ subPc[i] # "new"
  /\ unsubCalls[i] < MaxUnsubCalls
  /\ RunUnsubscribe(i)
  /\ UNCHANGED <<aborted, abortRuns>>

\* the signal passed to subscribe aborts: its "abort" listeners run
Abort(i) ==
  /\ subPc[i] # "new"
  /\ hasSignal[i]
  /\ ~aborted[i]
  /\ aborted' = [aborted EXCEPT ![i] = TRUE]
  /\ IF abortListener[i]
     THEN /\ RunUnsubscribe(i)
          /\ abortRuns' = [abortRuns EXCEPT ![i] = @ + 1]
     ELSE UNCHANGED <<wsVars, tokVars, callVars, subVars, inputVars, facadeVars, hasSignal,
                      abortListener, abortRuns, frameVars, pingBy>>

\* ------------------------------------------------------------ socket events
\* the open event of socket s is delivered: ws.onopen runs
SocketOpen(s) ==
  /\ readyState[s] = "CONNECTING"
  /\ ~MicrotaskPending
  /\ Install(onopen([World EXCEPT !.readyState[s] = "OPEN"], s))
  /\ UNCHANGED <<npings, pingBy, inputVars, facadeVars, sigVars, frameVars, cfg, now, lastIssued, lastRefresh, callVars, subVars>>

\* the peer or the network starts closing socket s: readyState leaves OPEN
\* before the close event is delivered
SocketClosing(s) ==
  /\ readyState[s] = "OPEN"
  /\ ~MicrotaskPending
  /\ readyState' = [readyState EXCEPT ![s] = "CLOSING"]
  /\ UNCHANGED <<state, ws, listeners, msgQueue, persistentMsgs, nsock, wire,
                 pingTimer, npings, queued, intervals, stale, transports, urlToken,
                 presented, hasTransport, microtasks, tokVars,
                 callVars, subVars, pingBy, inputVars, facadeVars, sigVars, frameVars>>

\* the close event of socket s is delivered (failed connection attempt, server
\* or network close, or the end of a close() handshake): ws.onclose runs
SocketClose(s) ==
  /\ readyState[s] \in {"CONNECTING", "OPEN", "CLOSING"}
  /\ ~MicrotaskPending
  /\ LET w2 == onclose([World EXCEPT !.readyState[s] = "CLOSED"], s)
     IN /\ Fits(w2)
        /\ Install(w2)
  /\ UNCHANGED <<npings, pingBy, inputVars, facadeVars, sigVars, frameVars, cfg, now, lastIssued, lastRefresh, callVars, subVars>>

\* the setInterval callback installed by the onConnect of socket s fires:
\* this.ws?.send({ type: "ping" })
Ping(s) ==
  /\ pingTimer[s] = "active"
  /\ npings < MaxPings
  /\ ~MicrotaskPending
  /\ npings' = npings + 1
  /\ pingBy' = s
  /\ Install(send(World, PingMsg(npings + 1)))
  /\ UNCHANGED <<inputVars, facadeVars, sigVars, frameVars, cfg, now, lastIssued, lastRefresh,
                 callVars, subVars>>

\* ----------------------------------------------------------- incoming frames
\* StateValue: a string, undefined, or an object of StateValues (its keys in
\* Object.keys order)
Leaf(str) == [kind |-> "str", str |-> str, kids |-> <<>>]
Undef == [kind |-> "undef", str |-> "", kids |-> <<>>]
Obj(kids) == [kind |-> "obj", str |-> "", kids |-> kids]
Kid(key, val) == [key |-> key, val |-> val]
\* a string that contains dots, given by its split("."), and an array of strings
Dotted(path) == [kind |-> "dotted", str |-> "", kids |-> path]
Arr(path) == [kind |-> "arr", str |-> "", kids |-> path]

RECURSIVE Prefixed(_, _)
\* paths.map((s) => key + delimiter + s); a dotted path is the sequence of its segments
Prefixed(key, paths) ==
  IF paths = <<>> THEN <<>>
  ELSE <<(<<key>> \o Head(paths))>> \o Prefixed(key, Tail(paths))

RECURSIVE Keys(_)
\* Object.keys(stateValue)
Keys(kids) == IF kids = <<>> THEN <<>> ELSE <<(<<Head(kids).key>>)>> \o Keys(Tail(kids))

RECURSIVE toStringsDepthFirst(_)
RECURSIVE DepthFirstKids(_)
DepthFirstKids(kids) ==
  IF kids = <<>> THEN <<>>
  ELSE <<(<<Head(kids).key>>)>>
         \o Prefixed(Head(kids).key, toStringsDepthFirst(Head(kids).val))
         \o DepthFirstKids(Tail(kids))
\* toStrings as it would be if it listed each key right before its own subtree
toStringsDepthFirst(v) ==
  CASE v.kind = "str" -> <<(<<v.str>>)>>
    [] v.kind = "dotted" -> <<v.kids>>
    [] v.kind = "undef" -> <<>>
    [] OTHER -> DepthFirstKids(v.kids)

RECURSIVE toStrings(_)
RECURSIVE ChildPaths(_)
\* ...valueKeys.map((key) => toStrings(stateValue[key]).map((s) => key + "." + s))
ChildPaths(kids) ==
  IF kids = <<>> THEN <<>>
  ELSE Prefixed(Head(kids).key, toStrings(Head(kids).val)) \o ChildPaths(Tail(kids))

\* toStrings(stateValue)
toStrings(v) ==
  CASE v.kind = "str" -> <<(<<v.str>>)>>
    [] v.kind = "dotted" -> <<v.kids>>
    [] v.kind = "undef" -> <<>>
    [] OTHER -> Keys(v.kids) \o ChildPaths(v.kids)

\* enhanceState(state)
enhanceState(p) ==
  [state |-> p.state, publicContext |-> p.publicContext, done |-> p.done,
   tags |-> p.tags, states |-> toStrings(p.state)]

\* What the n-th frame carries when it is an instance-update.
Payload(n) ==
  IF n % 2 = 1
  THEN [state |-> Leaf("idle"), publicContext |-> n, done |-> FALSE, tags |-> {}]
  ELSE [state |-> Obj(<<Kid("busy", Leaf("step"))>>), publicContext |-> n,
        done |-> TRUE, tags |-> {"t"}]

\* The frames a server may send as the n-th frame (WSToClientMsg), and a text
\* that JSON.parse rejects.
UpdateFrame(mn, inst, n) ==
  [type |-> "instance-update", machineName |-> mn, machineInstanceName |-> inst,
   requestId |-> 0, status |-> 0, payload |-> Payload(n)]
UpdateFrames(n) ==
  {UpdateFrame("machine", inst, n) : inst \in Instances}
    \cup {UpdateFrame("other-machine", InstanceOf(1), n)}
\* the status an error frame reports
ErrorFrameStatuses == {403}
ErrorFrames(n) ==
  {[type |-> "error", machineName |-> "", machineInstanceName |-> "",
    requestId |-> rid, status |-> st, payload |-> Payload(n)] :
     rid \in 1..(MaxSubs + 1), st \in ErrorFrameStatuses}
Unparsable(n) ==
  [type |-> "unparsable", machineName |-> "", machineInstanceName |-> "",
   requestId |-> 0, status |-> 0, payload |-> Payload(n)]
FramesAt(n) == UpdateFrames(n) \cup ErrorFrames(n) \cup {Unparsable(n)}

\* what the callbacks have been called with, and whether the last call threw
Seen(u, e, threw) == [updates |-> u, errs |-> e, threw |-> threw]

\* the handler as it would be if it compared machineName only
handlerIgnoresInstance(i, f, obs) ==
  CASE f.type = "error" ->
         IF f.requestId # i THEN obs
         ELSE IF ~hasOnError[i] THEN obs
         ELSE Seen(obs.updates, [obs.errs EXCEPT ![i] = Append(@, adaptError(f.status))],
                   cbKind[i] = "throws")
    [] f.type = "instance-update" ->
         IF f.machineName # MachineOf(i)
         THEN obs
         ELSE Seen([obs.updates EXCEPT ![i] = Append(@, enhanceState(f.payload))],
                   obs.errs, cbKind[i] = "throws")
    [] OTHER -> obs

\* the handler as it would be without `if (msg.requestId !== requestId) return`
handlerIgnoresRequestId(i, f, obs) ==
  CASE f.type = "error" ->
         IF ~hasOnError[i] THEN obs
         ELSE Seen(obs.updates, [obs.errs EXCEPT ![i] = Append(@, adaptError(f.status))],
                   cbKind[i] = "throws")
    [] f.type = "instance-update" ->
         IF f.machineName # MachineOf(i) \/ f.machineInstanceName # instName[i]
         THEN obs
         ELSE Seen([obs.updates EXCEPT ![i] = Append(@, enhanceState(f.payload))],
                   obs.errs, cbKind[i] = "throws")
    [] OTHER -> obs

\* the handler subscribe passes to ensureWebSocketEstablished, for subscription i
handler(i, f, obs) ==
  CASE f.type = "error" ->
         IF f.requestId # i THEN obs
         ELSE IF ~hasOnError[i] THEN obs
         ELSE Seen(obs.updates, [obs.errs EXCEPT ![i] = Append(@, adaptError(f.status))],
                   cbKind[i] = "throws")
    [] f.type = "instance-update" ->
         IF f.machineName # MachineOf(i) \/ f.machineInstanceName # instName[i]
         THEN obs
         ELSE Seen([obs.updates EXCEPT ![i] = Append(@, enhanceState(f.payload))],
                   obs.errs, cbKind[i] = "throws")
    [] OTHER -> obs

RECURSIVE Dispatch(_, _, _)
\* for (const listener of this.listeners) listener(msg), left by the first throw
Dispatch(ls, f, obs) ==
  IF ls = <<>> \/ obs.threw THEN obs
  ELSE Dispatch(Tail(ls), f, handler(Head(ls), f, obs))

\* ws.onmessage as it would be if it told the listeners' onError of a frame
\* that does not parse
onmessageReportsParseError(f, obs) ==
  IF f.type = "unparsable"
  THEN Seen(obs.updates,
            [i \in Subs |-> IF i \in Range(listeners) /\ hasOnError[i]
                            THEN Append(obs.errs[i], "SyntaxError")
                            ELSE obs.errs[i]],
            FALSE)
  ELSE Dispatch(listeners, f, obs)

\* ws.onmessage: a frame that does not parse reaches no listener; whatever is
\* thrown is swallowed
onmessage(f, obs) ==
  IF f.type = "unparsable" THEN obs ELSE Dispatch(listeners, f, obs)

\* a message event of socket s is delivered
Frame(s) ==
  /\ readyState[s] \in {"OPEN", "CLOSING"}
  /\ EverOpened(s)
  /\ ~MicrotaskPending
  /\ nframes < MaxFrames
  /\ \E f \in FramesAt(nframes + 1) :
       LET obs == onmessage(f, Seen(updates, errs, FALSE))
       IN /\ nframes' = nframes + 1
          /\ lastFrame' = f
          /\ updates' = obs.updates
          /\ errs' = obs.errs
          /\ late' = [i \in Subs |->
                        IF isUnsubscribed[i]
                           /\ (obs.updates[i] # updates[i] \/ obs.errs[i] # errs[i])
                        THEN late[i] + 1 ELSE late[i]]
  /\ UNCHANGED <<wsVars, tokVars, callVars, subVars, inputVars, facadeVars, sigVars, pingBy>>

\* a delivery in progress: the transport, what the callbacks have been called
\* with, and the subscriptions' flags as the callbacks have left them so far
Delivering ==
  [w |-> World, obs |-> Seen(updates, errs, FALSE), isUnsubscribed |-> isUnsubscribed,
   unsubCalls |-> unsubCalls, abortListener |-> abortListener, late |-> late]

\* the subscription whose unsubscribe function the callbacks of a "cancels"
\* subscription i hold
HeldBy(i) == CHOOSE j \in Subs : j # i

\* a callback calls the function subscribe returned for subscription j, unless
\* a callback of this delivery has called it already
callbackUnsubscribes(d, j) ==
  IF subPc[j] = "new" \/ unsubCalls[j] >= MaxUnsubCalls \/ d.unsubCalls[j] # unsubCalls[j]
  THEN d
  ELSE [d EXCEPT !.isUnsubscribed[j] = TRUE,
                 !.abortListener[j] = FALSE,
                 !.unsubCalls[j] = @ + 1,
                 !.w = unsubscribe(@, j)]

\* the handler of subscription i, called in the course of a delivery whose
\* callbacks may unsubscribe: it tests the frame, never isUnsubscribed
handlerReentrant(i, f, d) ==
  LET obs1 == handler(i, f, d.obs)
      called == obs1.updates[i] # d.obs.updates[i] \/ obs1.errs[i] # d.obs.errs[i]
      d1 == [d EXCEPT !.obs = obs1,
                      !.late[i] = IF called /\ d.isUnsubscribed[i] THEN @ + 1 ELSE @]
  IN IF called /\ cbKind[i] = "cancels"
     THEN callbackUnsubscribes(d1, HeldBy(i))
     ELSE d1

RECURSIVE DispatchReentrant(_, _, _)
\* for (const listener of this.listeners) listener(msg): the loop runs over the
\* array it started with, whatever removeListener assigns to this.listeners
DispatchReentrant(ls, f, d) ==
  IF ls = <<>> \/ d.obs.threw THEN d
  ELSE DispatchReentrant(Tail(ls), f, handlerReentrant(Head(ls), f, d))

\* a message event of socket s is delivered to callbacks that may unsubscribe
Deliver(s) ==
  /\ readyState[s] \in {"OPEN", "CLOSING"}
  /\ EverOpened(s)
  /\ ~MicrotaskPending
  /\ nframes < MaxFrames
  /\ \E f \in FramesAt(nframes + 1) :
       LET d == IF f.type = "unparsable" THEN Delivering
                ELSE DispatchReentrant(listeners, f, Delivering)
       IN /\ nframes' = nframes + 1
          /\ lastFrame' = f
          /\ updates' = d.obs.updates
          /\ errs' = d.obs.errs
          /\ late' = d.late
          /\ isUnsubscribed' = d.isUnsubscribed
          /\ unsubCalls' = d.unsubCalls
          /\ abortListener' = d.abortListener
          /\ Install(d.w)
  /\ UNCHANGED <<npings, pingBy, inputVars, facadeVars, hasSignal, aborted, abortRuns, cfg,
                 now, lastIssued, lastRefresh, callVars, subPc, subResult,
                 hasWsUnsubscribe, cancelId, subError, waiters>>

\* ------------------------------------------------------------------- Actor
Observers == 1..MaxObservers
NoUnsubscribe == 0   \* this.unsubscribe === undefined; otherwise the subscription it ends
NoObserver == 0      \* the next callback ends no Subscription

\* new ActorState(machineState)
ActorState(machineState) ==
  [value |-> machineState.state, context |-> [public |-> machineState.publicContext],
   done |-> machineState.done, tags |-> machineState.tags]

\* the GetMachineInstanceResponse the Actor is constructed with
InitialResponse == enhanceState(Payload(0))

\* the Actor and everything a call into it can touch
ActorWorld ==
  [actor |-> actor, snapshots |-> snapshots, remoteSubs |-> remoteSubs,
   remoteLive |-> remoteLive, sendsPending |-> sendsPending, nsends |-> nsends,
   seen |-> seen]

InstallActor(a) ==
  /\ actor' = a.actor
  /\ snapshots' = a.snapshots
  /\ remoteSubs' = a.remoteSubs
  /\ remoteLive' = a.remoteLive
  /\ sendsPending' = a.sendsPending
  /\ nsends' = a.nsends
  /\ seen' = a.seen

\* getSnapshot()
getSnapshot(a) == a.actor.state

\* the in-flight list: send records the event at once
recordInFlight(a, event) == [a EXCEPT !.actor.inFlightEvents = Append(@, event)]
\* the in-flight list as it would be if updates left it alone
keepInFlight(a) == a

\* the in-flight list: the arrival of a state update empties it
clearInFlight(a) == [a EXCEPT !.actor.inFlightEvents = <<>>]

\* send(event): the request is issued and its promise is left with a catch handler
actorSend(a, event) ==
  [recordInFlight(a, event) EXCEPT !.sendsPending = Append(@, event), !.nsends = @ + 1]

\* _subscribeToRemoteState()
subscribeToRemoteState(a) ==
  IF a.actor.unsubscribe # NoUnsubscribe THEN a
  ELSE [a EXCEPT !.remoteSubs = @ + 1,
                 !.remoteLive = @ \cup {a.remoteSubs + 1},
                 !.actor.unsubscribe = a.remoteSubs + 1]

\* this.unsubscribe as it would be without `this.unsubscribe = undefined`
actorUnsubscribeKeepsHandle(a) ==
  [a EXCEPT !.remoteLive = @ \ {a.actor.unsubscribe}]

\* this.unsubscribe = () => { unsub(); this.unsubscribe = undefined; }
actorUnsubscribe(a) ==
  [a EXCEPT !.remoteLive = @ \ {a.actor.unsubscribe},
            !.actor.unsubscribe = NoUnsubscribe]

\* Actor.subscribe(observer)
actorSubscribe(a, o) ==
  LET a1 == [a EXCEPT !.actor.subscribers = Append(@, o)]
  IN IF a1.actor.unsubscribe = NoUnsubscribe THEN subscribeToRemoteState(a1) ELSE a1

\* the unsubscribe function of the Subscription that Actor.subscribe(o) returned
subscriptionUnsubscribe(a, o) ==
  LET a1 == [a EXCEPT !.actor.subscribers = Without(@, o)]
  IN IF a1.actor.subscribers = <<>> /\ a1.actor.unsubscribe # NoUnsubscribe
     THEN actorUnsubscribe(a1)
     ELSE a1

\* an observer's next callback: it looks at the state it is given, at
\* getSnapshot() and at the in-flight list, may send the next event, and may
\* call unsubscribe() of the Subscription an attach of some observer returned
ObserverNext(o, st, a) ==
  LET a1 == [a EXCEPT !.seen[o].nexts =
                        Append(@, [state |-> st, snapshot |-> getSnapshot(a),
                                   inFlight |-> a.actor.inFlightEvents])]
      a2 == IF obsSends[o] /\ a1.nsends < MaxSends THEN actorSend(a1, a1.nsends + 1) ELSE a1
  IN IF obsDetaches[o] \in Range(handles)
     THEN subscriptionUnsubscribe(a2, obsDetaches[o])
     ELSE a2

RECURSIVE NotifyAllSkips(_, _, _)
\* the loop as it would be over an array that unsubscribe shortened in place:
\* when the observer just called is gone, the one after it is passed over
NotifyAllSkips(subs, st, a) ==
  IF subs = <<>> THEN a
  ELSE LET a1 == ObserverNext(Head(subs), st, a)
           rest == Tail(subs)
       IN NotifyAllSkips(IF Head(subs) \notin Range(a1.actor.subscribers) /\ rest # <<>>
                         THEN Tail(rest) ELSE rest, st, a1)

RECURSIVE NotifyAll(_, _, _)
\* for (const sub of this.subscribers) sub.next(state)
NotifyAll(subs, st, a) ==
  IF subs = <<>> THEN a ELSE NotifyAll(Tail(subs), st, ObserverNext(Head(subs), st, a))

\* setState as it would be if it notified before assigning this.state
setStateNotifiesFirst(a, st) ==
  [NotifyAll(a.actor.subscribers, st, a) EXCEPT !.actor.state = st]

\* setState(state)
setState(a, st) ==
  LET a1 == [a EXCEPT !.actor.state = st]
  IN NotifyAll(a1.actor.subscribers, st, a1)

RECURSIVE ReportAll(_, _, _)
\* for (const sub of this.subscribers) sub.error?.(err)
ReportAll(subs, err, a) ==
  IF subs = <<>> THEN a
  ELSE ReportAll(Tail(subs), err, [a EXCEPT !.seen[Head(subs)].errors = Append(@, err)])

\* reportError as it would be if it told the first subscriber only
reportErrorToFirst(a, err) ==
  IF a.actor.subscribers = <<>> THEN a
  ELSE ReportAll(<<Head(a.actor.subscribers)>>, err, a)

\* reportError(err)
reportError(a, err) == ReportAll(a.actor.subscribers, err, a)

\* the onStateUpdate callback as it would be if it wrote the update into the
\* ActorState object the Actor already has
onStateUpdateInPlace(a, event) ==
  LET a1 == [a EXCEPT !.snapshots[a.actor.state] = ActorState(event)]
  IN setState(clearInFlight(a1), a.actor.state)

\* the onStateUpdate callback the Actor subscribes with
onStateUpdate(a, event) ==
  LET a1 == [a EXCEPT !.snapshots = Append(@, ActorState(event))]
  IN setState(clearInFlight(a1), Len(a1.snapshots))

\* a caller attaches observer o
Attach(o) ==
  /\ Len(handles) < MaxAttaches
  /\ handles' = Append(handles, o)
  /\ InstallActor(actorSubscribe(ActorWorld, o))
  /\ UNCHANGED <<nerrors, obsSends, obsDetaches, outsideActor>>

\* a caller calls unsubscribe() of the Subscription its h-th attach returned
Detach(h) ==
  /\ h \in DOMAIN handles
  /\ InstallActor(subscriptionUnsubscribe(ActorWorld, handles[h]))
  /\ UNCHANGED <<nerrors, handles, obsSends, obsDetaches, outsideActor>>

\* subscription r delivers the next state update of the instance
Update(r) ==
  /\ r \in remoteLive
  /\ Len(snapshots) <= MaxUpdates
  /\ InstallActor(onStateUpdate(ActorWorld, enhanceState(Payload(Len(snapshots)))))
  /\ UNCHANGED <<nerrors, handles, obsSends, obsDetaches, outsideActor>>

\* subscription r reports an error to its onError callback
SubscriptionError(r) ==
  /\ r \in remoteLive
  /\ nerrors < MaxErrors
  /\ nerrors' = nerrors + 1
  /\ InstallActor(reportError(ActorWorld, "subscription"))
  /\ UNCHANGED <<handles, obsSends, obsDetaches, outsideActor>>

\* a caller calls actor.send(event)
Send ==
  /\ nsends < MaxSends
  /\ InstallActor(actorSend(ActorWorld, nsends + 1))
  /\ UNCHANGED <<nerrors, handles, obsSends, obsDetaches, outsideActor>>

\* the k-th pending sendEvent request is answered with the new state
SendSucceeds(k) ==
  /\ k \in DOMAIN sendsPending
  /\ sendsPending' = SubSeq(sendsPending, 1, k - 1) \o SubSeq(sendsPending, k + 1, Len(sendsPending))
  /\ UNCHANGED <<actor, snapshots, remoteSubs, remoteLive, nsends, seen, nerrors,
                 handles, obsSends, obsDetaches, outsideActor>>

\* the k-th pending sendEvent request fails: its catch handler runs
SendFails(k) ==
  /\ k \in DOMAIN sendsPending
  /\ nerrors < MaxErrors
  /\ nerrors' = nerrors + 1
  /\ InstallActor(reportError(
       [ActorWorld EXCEPT !.sendsPending =
          SubSeq(@, 1, k - 1) \o SubSeq(@, k + 1, Len(@))], "send"))
  /\ UNCHANGED <<handles, obsSends, obsDetaches, outsideActor>>


\* ------------------------------------------------------------ matchesState
RECURSIVE PathObject(_)
\* the object pathToStateValue builds for a path of two or more segments
PathObject(statePath) ==
  IF Len(statePath) = 2
  THEN Obj(<<Kid(statePath[1], Leaf(statePath[2]))>>)
  ELSE Obj(<<Kid(statePath[1], PathObject(Tail(statePath)))>>)

\* pathToStateValue(statePath)
pathToStateValue(statePath) ==
  CASE Len(statePath) = 1 -> Leaf(statePath[1])
    [] Len(statePath) = 0 -> Obj(<<>>)
    [] OTHER -> PathObject(statePath)

\* toStateValue(stateValue)
toStateValue(v) ==
  CASE v.kind = "arr" -> pathToStateValue(v.kids)
    [] v.kind = "obj" -> v
    [] v.kind = "dotted" -> pathToStateValue(v.kids)
    [] OTHER -> pathToStateValue(<<v.str>>)

\* key in childStateValue, and childStateValue[key]
HasKey(v, key) == \E k \in DOMAIN v.kids : v.kids[k].key = key
ValueAt(v, key) == v.kids[CHOOSE k \in DOMAIN v.kids : v.kids[k].key = key].val

\* matchesState as it would be if a string parent matched any object child
matchesStateAnyKey(parentStateId, childStateId) ==
  \/ parentStateId.kind = "undef" /\ childStateId.kind = "undef"
  \/ parentStateId.kind # "undef" /\ childStateId.kind = "undef"
  \/ /\ parentStateId.kind # "undef" /\ childStateId.kind # "undef"
     /\ toStateValue(childStateId).kind = "obj"

\* matchesState as it would be with the two undefined checks exchanged
matchesStateUndefinedSwapped(parentStateId, childStateId) ==
  IF childStateId.kind = "undef" THEN parentStateId.kind = "undef"
  ELSE parentStateId.kind = "undef"

RECURSIVE matchesState(_, _)
\* matchesState(parentStateId, childStateId)
matchesState(parentStateId, childStateId) ==
  IF parentStateId.kind = "undef" THEN childStateId.kind = "undef"
  ELSE IF childStateId.kind = "undef" THEN TRUE
  ELSE LET parentStateValue == toStateValue(parentStateId)
           childStateValue == toStateValue(childStateId)
       IN IF childStateValue.kind = "str"
          THEN IF parentStateValue.kind = "str"
               THEN childStateValue.str = parentStateValue.str
               ELSE FALSE
          ELSE IF parentStateValue.kind = "str"
               THEN HasKey(childStateValue, parentStateValue.str)
               ELSE \A k \in DOMAIN parentStateValue.kids :
                      LET key == parentStateValue.kids[k].key
                      IN IF ~HasKey(childStateValue, key) THEN FALSE
                         ELSE matchesState(parentStateValue.kids[k].val,
                                           ValueAt(childStateValue, key))

\* the arguments the functions are applied to
Segments == {"a", "b", "c"}
Paths == UNION {[1..n -> Segments] : n \in 1..MaxPathLen}
Leaves == {Leaf(s) : s \in Segments}
OneKey(vals) == {Obj(<<Kid(k, v)>>) : k \in Segments, v \in vals}
TwoKeys(vals1, vals2) ==
  {Obj(<<Kid(ks[1], v1), Kid(ks[2], v2)>>) :
     ks \in {p \in Segments \X Segments : p[1] # p[2]}, v1 \in vals1, v2 \in vals2}
NestedExample ==
  Obj(<<Kid("s1", Obj(<<Kid("s2", Leaf("s2-1")), Kid("s3", Leaf("s3-1"))>>))>>)
DottedStrings == {Dotted(p) : p \in {q \in Paths : Len(q) >= 2}}
StateValues ==
  Leaves \cup OneKey(Leaves) \cup OneKey(OneKey(Leaves))
    \cup TwoKeys(Leaves \cup OneKey(Leaves), Leaves)
    \cup OneKey(TwoKeys(Leaves, Leaves))
    \cup DottedStrings \cup {NestedExample, Undef}
Descriptors == StateValues \cup {Arr(p) : p \in Paths}

\* matchesState(descriptor, stateValue) is called
MatchesState ==
  /\ "matchesState" \notin applied
  /\ applied' = applied \cup {"matchesState"}
  /\ matched' = IF matchesState(descriptor, stateValue) THEN "yes" ELSE "no"
  /\ UNCHANGED <<descriptor, stateValue, states, outsideValues>>

\* toStrings(stateValue) is called
ToStrings ==
  /\ "toStrings" \notin applied
  /\ applied' = applied \cup {"toStrings"}
  /\ states' = toStrings(stateValue)
  /\ UNCHANGED <<descriptor, stateValue, matched, outsideValues>>

\* ------------------------------------------------ machineInstances.getOrCreate
Racers == 1..MaxRacers

\* what the server answers a GET of the instance and a POST creating it with;
\* 400 and 500 stand for the failures that have nothing to do with the instance
ReadStatuses == (IF exists THEN {200} ELSE {404}) \cup {500}
CreateStatuses == (IF exists THEN {409} ELSE {200}) \cup {400, 500}

\* where a call stands and what it has settled with
Step(pc, result) == [pc |-> pc, result |-> result]

\* the first machineInstances.get has settled with status
afterRead(status) ==
  CASE status = 200 -> Step("done", "state")
    [] adaptError(status) = "NotFoundError" -> Step("create", "none")
    [] OTHER -> Step("done", adaptError(status))

\* machineInstances.create has settled, as it would be without the catch of
\* ConflictError
afterCreateNoRetry(status) ==
  IF status = 200 THEN Step("done", "state") ELSE Step("done", adaptError(status))

\* machineInstances.create has settled with status
afterCreate(status) ==
  CASE status = 200 -> Step("done", "state")
    [] adaptError(status) = "ConflictError" -> Step("reread", "none")
    [] OTHER -> Step("done", adaptError(status))

\* the machineInstances.get made after the conflict has settled with status
afterReread(status) ==
  IF status = 200 THEN Step("done", "state") ELSE Step("done", adaptError(status))

Settle(c, req, status, step) ==
  /\ gocTrace' = [gocTrace EXCEPT ![c] = Append(@, [req |-> req, status |-> status])]
  /\ gocPc' = [gocPc EXCEPT ![c] = step.pc]
  /\ gocResult' = [gocResult EXCEPT ![c] = step.result]

\* getOrCreate(machineName, instanceName, creationParams) is called
GetOrCreate(c) ==
  /\ gocPc[c] = "idle"
  /\ gocPc' = [gocPc EXCEPT ![c] = "read"]
  /\ UNCHANGED <<exists, gocResult, gocTrace, outsideGetOrCreate>>

\* the server answers the GET of call c
ReadAnswered(c) ==
  /\ gocPc[c] \in {"read", "reread"}
  /\ \E status \in ReadStatuses :
       Settle(c, "get", status,
              IF gocPc[c] = "read" THEN afterRead(status) ELSE afterReread(status))
  /\ UNCHANGED <<exists, outsideGetOrCreate>>

\* the server answers the POST of call c
CreateAnswered(c) ==
  /\ gocPc[c] = "create"
  /\ \E status \in CreateStatuses :
       /\ Settle(c, "create", status, afterCreate(status))
       /\ exists' = (exists \/ status = 200)
  /\ UNCHANGED outsideGetOrCreate

\* ---------------------------------------------------------------- logs.watch
\* the entries with a timestamp in lo+1..hi that pass the filter, oldest first
RECURSIVE Entries(_, _)
Entries(lo, hi) ==
  IF lo >= hi THEN <<>>
  ELSE (IF lo + 1 \in matching THEN <<lo + 1>> ELSE <<>>) \o Entries(lo + 1, hi)

\* the LogsResponse the server gives to retrieve(prevFrom): at most BatchSpan
\* timestamps further, maxTimestamp being prevFrom when nothing is newer
LogsResponse(prevFrom) ==
  LET hi == IF produced < prevFrom + BatchSpan THEN produced ELSE prevFrom + BatchSpan
      maxTimestamp == IF hi > prevFrom THEN hi ELSE prevFrom
  IN [logs |-> Entries(prevFrom, maxTimestamp), maxTimestamp |-> maxTimestamp]

\* the abort listener as it would be if it did not settle abortPromise
onAbortKeepsWaiting(pc) == pc

\* signal "abort" listener: abortPromise resolves, so a pending
\* Promise.race([delayPromise(30_000), abortPromise]) ends and the loop goes on
onAbort(pc) == IF pc = "waiting" THEN "requesting" ELSE pc

\* next() settles
Settled(how) == results' = Append(results, how)

\* the consumer calls next()
WatchNext ==
  /\ watchPc = "idle"
  /\ Len(results) < MaxNexts
  /\ IF watchAborted
     THEN Settled("done") /\ UNCHANGED <<watchPc, logBatch, yielded>>
     ELSE IF logBatch # <<>>
     THEN /\ Settled("value")
          /\ yielded' = Append(yielded, Head(logBatch))
          /\ logBatch' = Tail(logBatch)
          /\ UNCHANGED watchPc
     ELSE IF watchTo # NoTo /\ from >= watchTo
     THEN Settled("done") /\ UNCHANGED <<watchPc, logBatch, yielded>>
     ELSE watchPc' = "requesting" /\ UNCHANGED <<results, logBatch, yielded>>
  /\ UNCHANGED <<from, watchTo, watchAborted, produced, matching, retrieved, outsideWatch>>

\* the retrieve request of the pending next() is answered
RetrieveAnswered ==
  /\ watchPc = "requesting"
  /\ ~watchAborted
  /\ LET nextBatch == LogsResponse(from)
     IN /\ from' = nextBatch.maxTimestamp
        /\ retrieved' = retrieved \o nextBatch.logs
        /\ IF nextBatch.logs # <<>>
           THEN /\ Settled("value")
                /\ yielded' = Append(yielded, Head(nextBatch.logs))
                /\ logBatch' = Tail(nextBatch.logs)
                /\ watchPc' = "idle"
           ELSE /\ watchPc' = IF nextBatch.maxTimestamp = from THEN "waiting" ELSE "requesting"
                /\ UNCHANGED <<results, yielded, logBatch>>
  /\ UNCHANGED <<watchTo, watchAborted, produced, matching, outsideWatch>>

\* the retrieve request of the pending next() is rejected: by the aborted
\* signal with an AbortError, by anything else with another error
RetrieveRejected ==
  /\ watchPc = "requesting"
  /\ LET err == IF watchAborted THEN "AbortError" ELSE "ApiError"
     IN Settled(IF err = "AbortError" THEN "done" ELSE "throw")
  /\ watchPc' = "idle"
  /\ UNCHANGED <<from, watchTo, logBatch, watchAborted, produced, matching, retrieved,
                 yielded, outsideWatch>>

\* delayPromise(30_000) resolves
DelayElapses ==
  /\ watchPc = "waiting"
  /\ watchPc' = "requesting"
  /\ UNCHANGED <<from, watchTo, logBatch, watchAborted, produced, matching, retrieved,
                 yielded, results, outsideWatch>>

\* the signal given to watch aborts
AbortWatch ==
  /\ ~watchAborted
  /\ watchAborted' = TRUE
  /\ watchPc' = onAbort(watchPc)
  /\ UNCHANGED <<from, watchTo, logBatch, produced, matching, retrieved, yielded,
                 results, outsideWatch>>

\* the instance writes a log entry
LogProduced ==
  /\ produced < MaxLogs
  /\ produced' = produced + 1
  /\ UNCHANGED <<watchPc, from, watchTo, logBatch, watchAborted, matching, retrieved,
                 yielded, results, outsideWatch>>

\* ------------------------------------------------------------ specifications
TokenStep == StaticSettle \/ CallbackSettle \/ IdpSettle \/ ExchangeSettle

Next ==
  \/ StaticSettle
  \/ \E i \in Subs : Subscribe(i)
  \/ \E i \in Subs : EnsureResume(i)
  \/ \E i \in Subs : SubscribeResume(i)
  \/ \E i \in Subs : Unsubscribe(i)
  \/ \E s \in Sockets : SocketOpen(s)
  \/ \E s \in Sockets : SocketClosing(s)
  \/ \E s \in Sockets : SocketClose(s)
  \/ \E s \in Sockets : Ping(s)

\* The arguments every subscribe call is made with when a specification does
\* not vary them, and the observations before anything has happened.
DefaultInputs ==
  /\ instName = [i \in Subs |-> InstanceOf(i)]
  /\ cbKind = [i \in Subs |-> "plain"]
  /\ hasOnError = [i \in Subs |-> TRUE]

NothingObserved ==
  /\ hasSignal = [i \in Subs |-> FALSE]
  /\ abortListener = [i \in Subs |-> FALSE]
  /\ aborted = [i \in Subs |-> FALSE]
  /\ abortRuns = [i \in Subs |-> 0]
  /\ pingBy = NoSocket
  /\ nframes = 0
  /\ lastFrame = Unparsable(0)
  /\ updates = [i \in Subs |-> <<>>]
  /\ errs = [i \in Subs |-> <<>>]
  /\ late = [i \in Subs |-> 0]

\* an Actor nobody has used yet, whose observers only look
ActorIdle ==
  /\ actor = [state |-> 1, subscribers |-> <<>>, unsubscribe |-> NoUnsubscribe,
              inFlightEvents |-> <<>>]
  /\ snapshots = <<ActorState(InitialResponse)>>
  /\ remoteSubs = 0
  /\ remoteLive = {}
  /\ sendsPending = <<>>
  /\ nsends = 0
  /\ nerrors = 0
  /\ handles = <<>>
  /\ seen = [o \in Observers |-> [nexts |-> <<>>, errors |-> <<>>]]

\* no function applied yet
NothingApplied ==
  /\ matched = "unset"
  /\ states = <<>>
  /\ applied = {}

ValuesIdle ==
  /\ descriptor = Undef
  /\ stateValue = Undef
  /\ NothingApplied

\* an iterator of logs.watch(from) on which next() was never called
NotWatched ==
  /\ watchPc = "idle"
  /\ from = 0
  /\ logBatch = <<>>
  /\ watchAborted = FALSE
  /\ produced = 0
  /\ retrieved = <<>>
  /\ yielded = <<>>
  /\ results = <<>>

WatchIdle ==
  /\ NotWatched
  /\ watchTo = NoTo
  /\ matching = {}

\* no getOrCreate call made yet
NoCalls ==
  /\ gocPc = [c \in Racers |-> "idle"]
  /\ gocResult = [c \in Racers |-> "none"]
  /\ gocTrace = [c \in Racers |-> <<>>]

FacadeIdle ==
  /\ ActorIdle
  /\ obsSends = [o \in Observers |-> FALSE]
  /\ obsDetaches = [o \in Observers |-> NoObserver]
  /\ ValuesIdle
  /\ exists = FALSE
  /\ NoCalls
  /\ WatchIdle

Init == InitWith({"string"}) /\ DefaultInputs /\ NothingObserved /\ FacadeIdle

Spec == Init /\ [][Next]_vars

\* subscriptions made with and without an AbortSignal
SignalNext ==
  \/ StaticSettle
  \/ \E i \in Subs : Subscribe(i)
  \/ \E i \in Subs : SubscribeSignal(i)
  \/ \E i \in Subs : EnsureResume(i)
  \/ \E i \in Subs : SubscribeResume(i)
  \/ \E i \in Subs : Unsubscribe(i)
  \/ \E i \in Subs : Abort(i)
  \/ \E s \in Sockets : SocketOpen(s)
  \/ \E s \in Sockets : SocketClose(s)

SignalSpec == Init /\ [][SignalNext]_vars

\* subscriptions receiving frames; the callers choose the instance names and
\* what their callbacks are and do
FrameInputs ==
  /\ instName \in [Subs -> Instances]
  /\ instName[1] = InstanceOf(1)
  /\ cbKind \in [Subs -> {"plain", "throws"}]
  /\ hasOnError \in [Subs -> BOOLEAN]

FrameNext ==
  \/ StaticSettle
  \/ \E i \in Subs : Subscribe(i)
  \/ \E i \in Subs : EnsureResume(i)
  \/ \E i \in Subs : SubscribeResume(i)
  \/ \E i \in Subs : Unsubscribe(i)
  \/ \E s \in Sockets : SocketOpen(s)
  \/ \E s \in Sockets : Frame(s)

FrameInit == InitWith({"string"}) /\ FrameInputs /\ NothingObserved /\ FacadeIdle

FrameSpec == FrameInit /\ [][FrameNext]_vars

TokenNext ==
  \/ TokenStep
  \/ \E c \in Calls : ApiCall(c)
  \/ Tick

TokenInit == InitWith(ConfigShapes) /\ DefaultInputs /\ NothingObserved /\ FacadeIdle

TokenSpec == TokenInit /\ [][TokenNext]_vars

\* subscriptions of a client whose token comes from a callback that asks the
\* network: its answer arrives as a task of its own, it may be a rejection, its
\* tokens may expire, and sockets close and are reconnected
CredentialNext ==
  \/ (~MicrotaskPending /\ CallbackSettle)
  \/ Tick
  \/ \E i \in Subs : Subscribe(i)
  \/ \E i \in Subs : EnsureResume(i)
  \/ \E i \in Subs : SubscribeResume(i)
  \/ \E i \in Subs : SubscribeCatch(i)
  \/ \E s \in Sockets : SocketOpen(s)
  \/ \E s \in Sockets : SocketClose(s)

CredentialInit ==
  /\ InitWith({"fn"})
  /\ instName = [i \in Subs |-> InstanceOf(i)]
  /\ cbKind = [i \in Subs |-> "plain"]
  /\ hasOnError \in [Subs -> BOOLEAN]
  /\ NothingObserved
  /\ FacadeIdle

CredentialSpec == CredentialInit /\ [][CredentialNext]_vars

\* subscriptions whose callbacks may call another subscription's unsubscribe
\* while a frame is being delivered
CancelNext ==
  \/ StaticSettle
  \/ \E i \in Subs : Subscribe(i)
  \/ \E i \in Subs : EnsureResume(i)
  \/ \E i \in Subs : SubscribeResume(i)
  \/ \E i \in Subs : Unsubscribe(i)
  \/ \E s \in Sockets : SocketOpen(s)
  \/ \E s \in Sockets : Deliver(s)

CancelInit ==
  /\ InitWith({"string"})
  /\ instName \in [Subs -> Instances]
  /\ instName[1] = InstanceOf(1)
  /\ cbKind \in [Subs -> {"plain", "cancels"}]
  /\ hasOnError = [i \in Subs |-> TRUE]
  /\ NothingObserved
  /\ FacadeIdle

CancelSpec == CancelInit /\ [][CancelNext]_vars

\* an Actor, its observers and the subscription and requests behind it
ActorNext ==
  \/ \E o \in Observers : Attach(o)
  \/ \E h \in 1..MaxAttaches : Detach(h)
  \/ \E r \in 1..MaxAttaches : Update(r)
  \/ \E r \in 1..MaxAttaches : SubscriptionError(r)
  \/ Send
  \/ \E k \in 1..MaxSends : SendSucceeds(k)
  \/ \E k \in 1..MaxSends : SendFails(k)

ActorInit ==
  /\ InitWith({"string"}) /\ DefaultInputs /\ NothingObserved
  /\ ActorIdle
  /\ obsSends \in [Observers -> BOOLEAN]
  /\ obsDetaches = [o \in Observers |-> NoObserver]
  /\ ValuesIdle
  /\ exists = FALSE
  /\ NoCalls
  /\ WatchIdle

ActorSpec == ActorInit /\ [][ActorNext]_vars

\* an Actor whose observers may end a Subscription, their own or another
\* observer's, from inside their next callback
DetachInit ==
  /\ InitWith({"string"}) /\ DefaultInputs /\ NothingObserved
  /\ ActorIdle
  /\ obsSends = [o \in Observers |-> FALSE]
  /\ obsDetaches \in [Observers -> Observers \cup {NoObserver}]
  /\ ValuesIdle
  /\ exists = FALSE
  /\ NoCalls
  /\ WatchIdle

DetachSpec == DetachInit /\ [][ActorNext]_vars

\* matchesState and toStrings applied to the arguments Init draws
ValueNext == MatchesState \/ ToStrings

ValueInit ==
  /\ InitWith({"string"}) /\ DefaultInputs /\ NothingObserved
  /\ ActorIdle
  /\ obsSends = [o \in Observers |-> FALSE]
  /\ obsDetaches = [o \in Observers |-> NoObserver]
  /\ descriptor \in Descriptors
  /\ stateValue \in StateValues
  /\ NothingApplied
  /\ exists = FALSE
  /\ NoCalls
  /\ WatchIdle

ValueSpec == ValueInit /\ [][ValueNext]_vars

\* getOrCreate calls for one instance, which may or may not exist at first
GetOrCreateNext ==
  \/ \E c \in Racers : GetOrCreate(c)
  \/ \E c \in Racers : ReadAnswered(c)
  \/ \E c \in Racers : CreateAnswered(c)

GetOrCreateInit ==
  /\ InitWith({"string"}) /\ DefaultInputs /\ NothingObserved
  /\ ActorIdle
  /\ obsSends = [o \in Observers |-> FALSE]
  /\ obsDetaches = [o \in Observers |-> NoObserver]
  /\ ValuesIdle
  /\ exists \in BOOLEAN
  /\ NoCalls
  /\ WatchIdle

GetOrCreateSpec == GetOrCreateInit /\ [][GetOrCreateNext]_vars

\* one iterator of logs.watch, with or without filter.to and a filter that
\* lets some of the entries pass
WatchStep ==
  \/ WatchNext
  \/ RetrieveAnswered
  \/ RetrieveRejected
  \/ DelayElapses
  \/ AbortWatch
  \/ LogProduced

WatchInit ==
  /\ InitWith({"string"}) /\ DefaultInputs /\ NothingObserved
  /\ ActorIdle
  /\ obsSends = [o \in Observers |-> FALSE]
  /\ obsDetaches = [o \in Observers |-> NoObserver]
  /\ ValuesIdle
  /\ exists = FALSE
  /\ NoCalls
  /\ NotWatched
  /\ watchTo \in {NoTo, MaxLogs - 1}
  /\ matching \in SUBSET (1..MaxLogs)

WatchSpec == WatchInit /\ [][WatchStep]_vars

\* ================================================================= claims
\* ---- vocabulary
PhysicallyLive(s) == readyState[s] \in {"CONNECTING", "OPEN"}
OpenEvent(s) == readyState[s] = "CONNECTING" /\ readyState'[s] = "OPEN"
CloseEvent(s) == readyState[s] # "CLOSED" /\ readyState'[s] = "CLOSED"
WrittenOn(s, id) == Count(wire[s], id)
RECURSIVE TotalWritten(_, _)
TotalWritten(n, id) == IF n = 0 THEN 0 ELSE WrittenOn(n, id) + TotalWritten(n - 1, id)
\* subscribe() has sent the subscribe-to-instance message and unsubscribe was not called
Active(i) == subPc[i] = "subscribed" /\ ~isUnsubscribed[i]
\* the cancel closure of subscription i's persistentSend has been called
Cancelled(i) == cancelId[i] # 0 /\ isUnsubscribed[i]
AdHocIds == {m.id : m \in {UnsubscribeMsg(i, k) : i \in Subs, k \in 1..MaxUnsubCalls}
                          \cup {PingMsg(n) : n \in 1..MaxPings}}
SocketIsOpen == ws # NoSocket /\ readyState[ws] = "OPEN"
\* the message object that a step hands to send(), if the step sends one
Known(id) == id \in queued \/ \E s \in Sockets : WrittenOn(s, id) > 0
AllMsgs ==
  {SubscribeMsg(i) : i \in Subs}
    \cup {UnsubscribeMsg(i, k) : i \in Subs, k \in 1..MaxUnsubCalls}
    \cup {PingMsg(n) : n \in 1..MaxPings}

\* C1: while a subscription is active, every close of a socket that had opened
\* and carried the subscription's subscribe-to-instance message is followed by a
\* new connection attempt, and every socket that opens gets that message.
C1_ResubscribeAfterClose ==
  [][\A s \in Sockets : \A i \in Subs :
       /\ (CloseEvent(s) /\ EverOpened(s) /\ Active(i) /\ WrittenOn(s, i) > 0)
            => \E t \in Sockets : readyState'[t] = "CONNECTING"
       /\ (OpenEvent(s) /\ Active(i)) => Count(wire'[s], i) >= 1]_vars

\* C2: with a listener registered the transport always has a socket or a
\* pending connection attempt, whatever closed the previous socket.
C2_ReconnectsOnEveryClose ==
  Len(listeners) > 0 =>
    \/ ws # NoSocket
    \/ \E s \in Sockets : readyState[s] = "CONNECTING"

\* C3: at most one physical socket is connecting or open at any moment.
C3_AtMostOneSocket ==
  Cardinality({s \in Sockets : PhysicallyLive(s)}) <= 1

\* C4: while the listener set is empty no socket is open, no socket becomes
\* open and no connection attempt is started.
C4_ClosedWhileNoListeners ==
  /\ [](Len(listeners) = 0 => \A s \in Sockets : readyState[s] # "OPEN")
  /\ [][(Len(listeners) = 0 /\ Len(listeners') = 0) => nsock' = nsock]_vars

\* C5: on each socket open every persistent message and every queued message is
\* written to the new socket exactly once.
C5_FlushExactlyOnce ==
  [][\A s \in Sockets : OpenEvent(s) =>
       \A m \in Range(persistentMsgs) \cup Range(msgQueue) :
         Count(wire'[s], m.id) = 1]_vars

\* C6: send on an open socket writes the message at once, after everything
\* written before; send on a socket that is not open writes nothing and appends
\* the message to the queue; an open writes the persistent messages and then the
\* queue in order and empties the queue; a message handed to send by a caller
\* other than persistentSend is written at most once over all connections.
C6_SendOrder ==
  /\ [](\A id \in AdHocIds : TotalWritten(MaxSockets, id) <= 1)
  /\ [][\A m \in AllMsgs :
          (~Known(m.id) /\ Known(m.id)') =>
             IF SocketIsOpen
             THEN /\ wire' = [wire EXCEPT ![ws] = Append(@, m)]
                  /\ msgQueue' = msgQueue
             ELSE /\ wire' = wire
                  /\ msgQueue' = Append(msgQueue, m)]_vars
  /\ [][\A s \in Sockets : OpenEvent(s) =>
          /\ wire'[s] = wire[s] \o persistentMsgs \o msgQueue
          /\ msgQueue' = <<>>]_vars

\* C6 witness: a message that send() had queued was written, after a persistent
\* message, on a socket that opened later, and the queue was emptied.
C6_Witness ==
  \E s \in Sockets : \E id \in AdHocIds \cap queued :
    /\ s >= 2 /\ ws = s /\ readyState[s] = "OPEN"
    /\ Len(wire[s]) >= 2
    /\ \E i \in Subs : Active(i) /\ wire[s][1] = SubscribeMsg(i)
    /\ wire[s][Len(wire[s])].id = id
    /\ msgQueue = <<>>

\* C7: once the cancel function of a persistentSend has been called, its
\* message is never written to a socket again.
C7_CancelStopsReplay ==
  [][\A i \in Subs : Cancelled(i) =>
       \A s \in Sockets : Count(wire'[s], i) = Count(wire[s], i)]_vars

\* ---- token supplier vocabulary
\* a credential is cached and, by its own exp claim and the skew, not expired
ValidCached ==
  /\ Truthy(latestToken)
  /\ ~(latestToken.exp # NoExp /\ latestToken.exp * 1000 < now - ExpirySkewMs)
RefreshStarts == refreshCalls' # refreshCalls
RefreshSucceeds == inProgress # "none" /\ inProgress' = "none" /\ lastRefresh' = "ok"
RefreshFails ==
  \E c \in Callers : callPc[c] = "awaiting" /\ callPc'[c] = "rejected"
TokenRequested(c) == callPc[c] = "new" /\ callPc'[c] # "new"

\* C8: token requests made while no valid credential is cached share one
\* refresh (one invocation of the token source) and resolve to the same token;
\* no refresh starts while the cached credential is valid.
C8_SingleFlight ==
  /\ [](sourceCalls <= refreshCalls /\ exchangeCalls <= refreshCalls)
  /\ []((\E c \in Callers : callPc[c] = "awaiting") => inProgress # "none")
  /\ [][RefreshStarts => inProgress = "none"]_vars
  /\ [][\A c \in Callers :
          (callPc[c] = "awaiting" /\ callPc'[c] = "resolved")
             => callResult'[c] = Ok(lastIssued')]_vars
  /\ [][ValidCached => ~RefreshStarts]_vars

\* C9: a failed refresh leaves no credential cached and no refresh in flight;
\* the next token request starts a new refresh, and when that one succeeds every
\* caller awaiting it gets its token.
C9_RetryAfterFailure ==
  /\ [][RefreshFails => (~Truthy(latestToken') /\ inProgress' = "none")]_vars
  /\ [][\A c \in Calls :
          (TokenRequested(c) /\ inProgress = "none" /\ lastRefresh \notin {"none", "ok"})
             => (refreshCalls' = refreshCalls + 1 /\ inProgress' # "none")]_vars
  /\ [][\A c \in Callers :
          (RefreshSucceeds /\ callPc[c] = "awaiting")
             => (callPc'[c] = "resolved" /\ callResult'[c] = Ok(lastIssued'))]_vars

\* C9 witness: a call was rejected by a failed refresh and a later call was
\* resolved by the refresh started after it.
C9_Witness ==
  \E c1, c2 \in Callers :
    /\ callPc[c1] = "rejected"
    /\ callPc[c2] = "resolved"
    /\ Truthy(callResult[c2].token)
    /\ refreshCalls >= 2

\* C10: every caller of a failed refresh receives an UnauthorizedError.
C10_FailureIsUnauthorized ==
  \A c \in Callers : callPc[c] = "rejected" => callResult[c].err = "UnauthorizedError"

\* a token request was answered at once with the cached credential
CachedReturn(c) == callPc[c] = "new" /\ callPc'[c] = "resolved"

\* C11: a cached credential that carries an expiry instant is returned only
\* before that instant: no token request made at now >= exp returns it.
C11_ExpiredBeforeExp ==
  [][\A c \in Calls :
       (CachedReturn(c) /\ callResult'[c].token.exp # NoExp)
          => now < callResult'[c].token.exp * 1000]_vars

\* the expiry instant (ms) a credential declares, NoExp when it declares none
ExpiryOf(tok) == IF tok.exp # NoExp THEN tok.exp * 1000 ELSE NoExp

\* C12: a token request that finds the cached credential expired starts a
\* refresh; when the refresh succeeds the cached credential is the new one and
\* the recorded expiry is the new credential's own.
C12_ExpiredIsReplaced ==
  /\ [][\A c \in Calls :
          (TokenRequested(c) /\ Truthy(latestToken) /\ tokenIsExpired(World)
             /\ inProgress = "none")
            => /\ RefreshStarts /\ inProgress' # "none" /\ ~Truthy(latestToken')
               /\ cfg \in CallbackShapes => sourceCalls' = sourceCalls + 1
               /\ cfg = "idpString" => exchangeCalls' = exchangeCalls + 1]_vars
  /\ [][(RefreshSucceeds /\ Truthy(lastIssued')) =>
          (latestToken' = lastIssued' /\ tokenExpiration' = ExpiryOf(lastIssued'))]_vars

\* ---- subscription vocabulary
\* a run of subscription i's unsubscribe closure, the first or a later one
UnsubscribeRuns(i) == unsubCalls'[i] = unsubCalls[i] + 1
FirstUnsubscribe(i) == UnsubscribeRuns(i) /\ unsubCalls[i] = 0
LaterUnsubscribe(i) == UnsubscribeRuns(i) /\ unsubCalls[i] >= 1
\* the step hands message m to send(): written if the socket is open, else queued
Sends(m) ==
  IF SocketIsOpen
  THEN wire' = [wire EXCEPT ![ws] = Append(@, m)] /\ msgQueue' = msgQueue
  ELSE wire' = wire /\ msgQueue' = Append(msgQueue, m)
\* the step leaves the listeners alone and, if there are any, their connection
OthersUntouched ==
  /\ listeners' = listeners
  /\ persistentMsgs' = persistentMsgs
  /\ Len(listeners) > 0 => (state' = state /\ ws' = ws /\ readyState' = readyState)

\* C13 as stated: a second call of the function subscribe returned transmits
\* (writes or queues) no further frame and leaves the other subscribers'
\* listeners and connection as they are.
C13_SecondUnsubscribeSilent ==
  [][\A i \in Subs : LaterUnsubscribe(i) =>
       (wire' = wire /\ msgQueue' = msgQueue /\ OthersUntouched)]_vars

\* C13 amended: a second call hands one more unsubscribe-from-instance frame for
\* the same request to the transport when the client has one (written at once on
\* an open socket, queued otherwise), and leaves the listener set, the
\* persistent set and the connection of the remaining listeners as they are.
C13_SecondUnsubscribeHarmless ==
  [][\A i \in Subs : LaterUnsubscribe(i) =>
       /\ OthersUntouched
       /\ IF hasTransport
          THEN Sends(UnsubscribeMsg(i, unsubCalls'[i]))
          ELSE wire' = wire /\ msgQueue' = msgQueue]_vars

\* C13 witness: a subscription's unsubscribe has run twice, its second frame is
\* on the open socket, and another subscription is still active on that socket.
C13_Witness ==
  \E i, j \in Subs :
    /\ i # j /\ unsubCalls[i] = 2 /\ Active(j) /\ SocketIsOpen
    /\ Count(wire[ws], UnsubscribeMsg(i, 2).id) = 1
    /\ Count(wire[ws], j) >= 1
    /\ listeners = <<j>>

\* C14: once unsubscribe has been called with no subscribe-to-instance message
\* of the subscription written to any socket, none is ever written.
C14_NoSubscribeAfterEarlyUnsubscribe ==
  [][\A i \in Subs :
       (isUnsubscribed[i] /\ TotalWritten(MaxSockets, i) = 0)
          => \A s \in Sockets : Count(wire'[s], i) = 0]_vars

\* the subscription's subscribe-to-instance message was written on socket s and
\* s is open
CarriedOpen(i, s) == readyState[s] = "OPEN" /\ WrittenOn(s, i) > 0

\* C19: the first unsubscribe of a subscription whose socket is open writes its
\* unsubscribe-from-instance frame (same machineName, machineInstanceName and
\* requestId) on that socket; if no listener is left the socket is then closing.
C19_UnsubscribeFrameBeforeClose ==
  [][\A i \in Subs :
       (FirstUnsubscribe(i) /\ subPc[i] = "subscribed"
          /\ \E s \in Sockets : CarriedOpen(i, s))
          => /\ UnsubscribeMsg(i, 1).machineName = SubscribeMsg(i).machineName
             /\ UnsubscribeMsg(i, 1).machineInstanceName = SubscribeMsg(i).machineInstanceName
             /\ UnsubscribeMsg(i, 1).requestId = SubscribeMsg(i).requestId
             /\ \E s \in Sockets :
                  /\ CarriedOpen(i, s)
                  /\ wire'[s] = Append(wire[s], UnsubscribeMsg(i, 1))
                  /\ Len(listeners') = 0 => readyState'[s] = "CLOSING"]_vars

\* a firing of a ping interval
PingFires == npings' = npings + 1

\* C20: every socket that has opened and is open has an active ping interval,
\* and each firing of the interval of an open socket writes a ping frame on
\* that socket.
C20_PingOnEveryConnection ==
  /\ [](\A s \in Sockets : readyState[s] = "OPEN" => pingTimer[s] = "active")
  /\ [][\A s \in Sockets :
          (PingFires /\ pingBy' = s /\ readyState[s] = "OPEN")
             => wire'[s] = Append(wire[s], PingMsg(npings'))]_vars

\* the abort event of subscription i's signal
AbortEvent(i) == ~aborted[i] /\ aborted'[i]

\* C15: when the signal passed to subscribe aborts, unsubscribe runs once
\* because of it if the caller has not called unsubscribe before, and does not
\* run if the caller has; nothing else ever runs unsubscribe on the signal's behalf.
C15_AbortUnsubscribesOnce ==
  /\ [](\A i \in Subs : abortRuns[i] <= 1)
  /\ [][\A i \in Subs :
          AbortEvent(i) =>
             IF unsubCalls[i] = 0
             THEN /\ UnsubscribeRuns(i) /\ isUnsubscribed'[i]
                  /\ abortRuns'[i] = abortRuns[i] + 1
             ELSE /\ unsubCalls'[i] = unsubCalls[i]
                  /\ abortRuns'[i] = abortRuns[i]
                  /\ wire' = wire /\ msgQueue' = msgQueue /\ listeners' = listeners]_vars
  /\ [][\A i \in Subs : abortRuns'[i] # abortRuns[i] => AbortEvent(i)]_vars

\* C15 witness: one subscription was unsubscribed by its signal's abort, and the
\* signal of another aborted after its caller had called unsubscribe.
C15_Witness ==
  \E i, j \in Subs :
    /\ i # j
    /\ aborted[i] /\ abortRuns[i] = 1 /\ unsubCalls[i] = 1 /\ isUnsubscribed[i]
    /\ aborted[j] /\ abortRuns[j] = 0 /\ unsubCalls[j] = 1 /\ isUnsubscribed[j]

\* ---- frame vocabulary
\* a message event is delivered; lastFrame' is its frame
FrameStep == nframes' = nframes + 1
\* subscription i's handler is in the listener set
Registered(i) == i \in Range(listeners)
\* frame f is an instance-update for subscription i's (machineName, instanceName)
Matches(i, f) ==
  /\ f.type = "instance-update"
  /\ f.machineName = MachineOf(i)
  /\ f.machineInstanceName = instName[i]

\* C16: a subscription's onStateUpdate is invoked only by the delivery of an
\* instance-update frame whose machineName and machineInstanceName are both its
\* own; with two subscriptions to different pairs no frame reaches both.
C16_OnlyOwnUpdates ==
  /\ [][\A i \in Subs :
          updates'[i] # updates[i] => (FrameStep /\ Matches(i, lastFrame'))]_vars
  /\ [][\A i, j \in Subs :
          (instName[i] # instName[j] /\ updates'[i] # updates[i])
             => updates'[j] = updates[j]]_vars

\* C16 witness: two subscriptions to different instances share one open socket
\* and each has received exactly the update sent for its own instance.
C16_Witness ==
  /\ instName[1] # instName[2]
  /\ listeners = <<1, 2>> /\ SocketIsOpen
  /\ nframes = 2
  /\ updates[1] = <<enhanceState(Payload(1))>>
  /\ updates[2] = <<enhanceState(Payload(2))>>

\* C17: an error frame is passed to the onError of the registered subscription
\* whose request id is the frame's requestId, and to no other; a subscription
\* without onError gets nothing, and nothing but an error frame calls onError.
C17_ErrorToOwnerOnly ==
  /\ [][(FrameStep /\ lastFrame'.type = "error") =>
          \A i \in Subs :
            errs'[i] = IF Registered(i) /\ lastFrame'.requestId = i /\ hasOnError[i]
                       THEN Append(errs[i], adaptError(lastFrame'.status))
                       ELSE errs[i]]_vars
  /\ [][\A i \in Subs :
          errs'[i] # errs[i] => (FrameStep /\ lastFrame'.type = "error")]_vars

\* C17 witness: with two subscriptions registered, both with onError, an error
\* frame for the second one's request id has reached the second one only.
C17_Witness ==
  /\ listeners = <<1, 2>> /\ hasOnError[1] /\ hasOnError[2]
  /\ nframes >= 1 /\ lastFrame.type = "error" /\ lastFrame.requestId = 2
  /\ errs[2] = <<"UnauthorizedError">> /\ errs[1] = <<>>

\* C18: every delivery of an instance-update frame invokes the onStateUpdate of
\* each registered subscription it matches once, with the frame's state,
\* publicContext, tags and done, after the calls made for the frames before it.
C18_EveryMatchingUpdateInOrder ==
  [][(FrameStep /\ lastFrame'.type = "instance-update") =>
       \A i \in Subs :
         (Registered(i) /\ Matches(i, lastFrame')) =>
            /\ Len(updates'[i]) = Len(updates[i]) + 1
            /\ SubSeq(updates'[i], 1, Len(updates[i])) = updates[i]
            /\ LET u == updates'[i][Len(updates'[i])]
                   p == lastFrame'.payload
               IN /\ u.state = p.state /\ u.publicContext = p.publicContext
                  /\ u.tags = p.tags /\ u.done = p.done]_vars

C22_SnapshotIsLatest ==
  /\ getSnapshot(ActorWorld) = Len(snapshots)
  /\ \A o \in Observers : \A k \in DOMAIN seen[o].nexts :
       seen[o].nexts[k].snapshot = seen[o].nexts[k].state

\* an observer has been called for two updates and the second is the snapshot
C22_Witness ==
  /\ Len(snapshots) = 3
  /\ \E o \in Observers : Len(seen[o].nexts) = 2 /\ seen[o].nexts[2].state = 3

\* C23: the step that processes an update constructs one new ActorState object
\* and makes it the snapshot; the objects constructed for earlier updates, which
\* observers may still hold, keep their value, context, tags and done (no step
\* changes an object once it exists).
C23_EarlierSnapshotsUntouched ==
  [][/\ Len(snapshots') >= Len(snapshots)
     /\ \A n \in DOMAIN snapshots : snapshots'[n] = snapshots[n]
     /\ \A o \in Observers :
          Len(seen'[o].nexts) > Len(seen[o].nexts)
            => /\ Len(snapshots') = Len(snapshots) + 1
               /\ seen'[o].nexts[Len(seen'[o].nexts)].state = Len(snapshots')
               /\ snapshots'[Len(snapshots')] = ActorState(enhanceState(Payload(Len(snapshots))))]_vars

\* an observer holds the object of an update and a later update has been processed
C23_Witness ==
  \E o \in Observers :
    /\ Len(snapshots) = 3
    /\ Len(seen[o].nexts) = 2
    /\ seen[o].nexts[1].state = 2
    /\ snapshots[2] # snapshots[3]

\* what a call of actor.send outside a callback does to the in-flight list,
\* and what is left on the list by the step that processes an update
InFlightSteps ==
  /\ (nsends' = nsends + 1 /\ snapshots' = snapshots)
       => /\ actor'.inFlightEvents = Append(actor.inFlightEvents, nsends')
          /\ nsends' \in Range(sendsPending')
          /\ (actor.inFlightEvents = <<>> => actor'.inFlightEvents = <<nsends'>>)
  /\ Len(snapshots') > Len(snapshots)
       => \A e \in Range(actor'.inFlightEvents) : e > nsends

RECURSIVE Denoted(_)
Denoted(v) ==
  CASE v.kind = "str" -> {<<v.str>>}
    [] v.kind = "undef" -> {}
    [] v.kind \in {"dotted", "arr"} -> {SubSeq(v.kids, 1, n) : n \in 1..Len(v.kids)}
    [] OTHER -> UNION {{<<v.kids[k].key>>}
                         \cup {<<v.kids[k].key>> \o q : q \in Denoted(v.kids[k].val)} :
                       k \in DOMAIN v.kids}
Is(v, w) == v.kind = w.kind /\ v = w
ABC == Obj(<<Kid("a", Obj(<<Kid("b", Leaf("c"))>>))>>)
AB == Obj(<<Kid("a", Leaf("b"))>>)

\* C26: for a descriptor and a state value that are both given, matchesState
\* answers true exactly when every state the descriptor denotes is one of the
\* states the state value denotes (the descriptor is an ancestor of, or the same
\* as, the state); 'a', 'a.b', ['a','b'] and {a:'b'} match {a:{b:'c'}} and
\* {a:'b'}; 'a.c', {a:'c'}, a descriptor whose key the state value lacks and a
\* descriptor deeper than the state value do not.
C26_MatchesAncestorOrSame ==
  ("matchesState" \in applied /\ descriptor.kind # "undef" /\ stateValue.kind # "undef")
    => /\ (matched = "yes") <=> (Denoted(descriptor) \subseteq Denoted(stateValue))
       /\ (/\ \/ Is(descriptor, Leaf("a")) \/ Is(descriptor, Dotted(<<"a", "b">>))
              \/ Is(descriptor, Arr(<<"a", "b">>)) \/ Is(descriptor, AB)
           /\ Is(stateValue, ABC) \/ Is(stateValue, AB))
            => matched = "yes"
       /\ (/\ \/ Is(descriptor, Dotted(<<"a", "c">>))
              \/ Is(descriptor, Obj(<<Kid("a", Leaf("c"))>>))
              \/ Is(descriptor, Leaf("c"))
           /\ Is(stateValue, ABC) \/ Is(stateValue, AB))
            => matched = "no"
       /\ (Is(descriptor, ABC) /\ Is(stateValue, AB)) => matched = "no"

\* matchesState has found that the dotted string 'a.b' matches {a:{b:'c'}}
C26_Witness ==
  /\ "matchesState" \in applied
  /\ Is(descriptor, Dotted(<<"a", "b">>))
  /\ Is(stateValue, ABC)
  /\ matched = "yes"

\* C27: matchesState("a", undefined) is false and matchesState(undefined, "a")
\* is true.
C27_UndefinedArguments ==
  "matchesState" \in applied
    => /\ (Is(descriptor, Leaf("a")) /\ stateValue.kind = "undef") => matched = "no"
       /\ (descriptor.kind = "undef" /\ Is(stateValue, Leaf("a"))) => matched = "yes"

\* the place of a key among the keys of an object
KeyIndex(v, key) == CHOOSE k \in DOMAIN v.kids : v.kids[k].key = key

\* C28: toStrings gives [the string] for a string and [] for undefined; for an
\* object it gives every node of the tree once, as its path, each after all of
\* its prefixes: first the keys in their order, then, key by key, the paths below
\* each key; {a:{b:'c'}} gives a, a.b, a.b.c and {s1:{s2:'s2-1',s3:'s3-1'}}
\* gives s1, s1.s2, s1.s3, s1.s2.s2-1, s1.s3.s3-1.
C28_PathsAfterPrefixes ==
  "toStrings" \in applied
    => /\ stateValue.kind = "str" => states = <<(<<stateValue.str>>)>>
       /\ stateValue.kind = "dotted" => states = <<stateValue.kids>>
       /\ stateValue.kind = "undef" => states = <<>>
       /\ stateValue.kind = "obj"
            => LET n == Len(stateValue.kids)
               IN /\ Range(states) = Denoted(stateValue)
                  /\ Len(states) = Cardinality(Denoted(stateValue))
                  /\ \A i \in DOMAIN states : \A m \in 1..(Len(states[i]) - 1) :
                       \E j \in 1..(i - 1) : states[j] = SubSeq(states[i], 1, m)
                  /\ \A k \in 1..n : states[k] = <<stateValue.kids[k].key>>
                  /\ \A i \in (n + 1)..Len(states) : \A j \in (i + 1)..Len(states) :
                       KeyIndex(stateValue, states[i][1]) <= KeyIndex(stateValue, states[j][1])
       /\ Is(stateValue, ABC) => states = <<(<<"a">>), <<"a", "b">>, <<"a", "b", "c">>>>
       /\ Is(stateValue, NestedExample)
            => states = <<(<<"s1">>), <<"s1", "s2">>, <<"s1", "s3">>,
                          <<"s1", "s2", "s2-1">>, <<"s1", "s3", "s3-1">>>>

\* toStrings has been applied to {s1:{s2:'s2-1',s3:'s3-1'}} and gave five paths
C28_Witness ==
  "toStrings" \in applied /\ Is(stateValue, NestedExample) /\ Len(states) = 5

\* whether call c got no answer other than 200, 404 and 409
Undisturbed(c) ==
  \A k \in DOMAIN gocTrace[c] : gocTrace[c][k].status \in {200, 404, 409}
Answer(req, status) == [req |-> req, status |-> status]

\* C29: a finished getOrCreate call has read once and returned the state when
\* the read succeeded; has read, created and returned the created state when the
\* read said not-found; has read, created, read again and settled as that second
\* read did when the create said conflict; and has rejected with the error of
\* the read or of the create, making no further request, in every other case.
\* No call ever rejects with a conflict error, and calls that race and are
\* answered nothing but success, not-found and conflict all return the state.
C29_ReadCreateReread ==
  \A c \in Racers :
    /\ gocResult[c] # "ConflictError"
    /\ gocPc[c] = "done" =>
         LET tr == gocTrace[c]
             last == tr[Len(tr)]
         IN /\ \/ Len(tr) = 1 /\ tr[1].req = "get" /\ tr[1].status # 404
               \/ /\ Len(tr) = 2
                  /\ tr[1] = Answer("get", 404)
                  /\ tr[2].req = "create" /\ tr[2].status # 409
               \/ /\ Len(tr) = 3
                  /\ tr[1] = Answer("get", 404)
                  /\ tr[2] = Answer("create", 409)
                  /\ tr[3].req = "get"
            /\ gocResult[c] = IF last.status = 200 THEN "state" ELSE adaptError(last.status)
            /\ Undisturbed(c) => (gocResult[c] = "state" /\ exists)

\* two calls raced on a missing instance: one created it, the other met the
\* conflict and read again, and both returned the state
C29_Witness ==
  \E c, d \in Racers :
    /\ c # d
    /\ gocPc[c] = "done" /\ gocPc[d] = "done"
    /\ gocTrace[c] = <<Answer("get", 404), Answer("create", 200)>>
    /\ gocTrace[d] = <<Answer("get", 404), Answer("create", 409), Answer("get", 200)>>
    /\ gocResult[c] = "state" /\ gocResult[d] = "state"

C31_OnePingTimerPerConnection ==
  /\ [](\A s \in Sockets :
         /\ intervals[s] <= 1
         /\ pingTimer[s] = "active" => intervals[s] = 1
         /\ readyState[s] = "CLOSED" => pingTimer[s] # "active")
  /\ [][\A s \in Sockets :
          OpenEvent(s) => (pingTimer'[s] = "active" /\ intervals'[s] = intervals[s] + 1)]_vars
  /\ [][\A s \in Sockets : CloseEvent(s) => pingTimer'[s] # "active"]_vars

\* C31 witness: a connection that had opened has closed and its interval is
\* stopped, while the connection opened after it has its own active interval.
C31_Witness ==
  \E s, t \in Sockets :
    /\ s < t
    /\ readyState[s] = "CLOSED" /\ intervals[s] = 1 /\ pingTimer[s] = "cleared"
    /\ readyState[t] = "OPEN" /\ intervals[t] = 1 /\ pingTimer[t] = "active"

\* C32: the step that removes the last listener leaves the queue and the
\* persistent set empty, and a socket that opens while a listener is registered
\* is not sent a message that a shutdown had found queued or persistent.
C32_ShutdownReleasesQueues ==
  /\ [][(Len(listeners) > 0 /\ Len(listeners') = 0)
          => (msgQueue' = <<>> /\ persistentMsgs' = <<>>)]_vars
  /\ [][\A s \in Sockets : (OpenEvent(s) /\ Len(listeners) > 0) =>
          \A k \in (Len(wire[s]) + 1)..Len(wire'[s]) : wire'[s][k].id \notin stale]_vars

\* subscription i's ensureWebSocketEstablished resumes after `await this.token()`
EnsureResumes(i) == subPc[i] = "tokenReady" /\ subPc'[i] = "awaitEnsure"

\* C33: the client never constructs a second transport, and each subscribe
\* call's continuation adds its handler to the listeners of the one transport:
\* the first to resume constructs it, every later one finds it.
C33_OneTransport ==
  /\ [](transports <= 1 /\ (hasTransport <=> transports = 1))
  /\ [][\A i \in Subs : EnsureResumes(i) =>
          /\ listeners' = Append(listeners, i)
          /\ transports' = (IF hasTransport THEN transports ELSE transports + 1)
          /\ hasTransport']_vars

\* C33 witness: two subscribe calls were waiting for the token at the same
\* time, both have resumed, and both handlers are on the one transport, which
\* has made one connection attempt.
C33_Witness ==
  /\ subPc = [i \in Subs |-> "awaitEnsure"]
  /\ listeners = <<1, 2>>
  /\ transports = 1 /\ nsock = 1

\* the frame makes subscription j's handler call one of j's callbacks
Invokes(f, j) ==
  \/ Matches(j, f)
  \/ f.type = "error" /\ f.requestId = j /\ hasOnError[j]
\* listener j is called before listener i
Before(j, i) ==
  \E a, b \in 1..Len(listeners) : a < b /\ listeners[a] = j /\ listeners[b] = i
\* no listener called before i throws on the frame
Reached(f, i) ==
  \A j \in Subs : (Before(j, i) /\ Invokes(f, j)) => cbKind[j] # "throws"

\* C34: the delivery of a frame that does not parse calls no callback, reports
\* no error and changes nothing of the transport; an instance-update delivered
\* right after such a frame reaches every registered matching listener that the
\* dispatch loop gets to.
C34_BadFrameDropped ==
  /\ [][(FrameStep /\ lastFrame'.type = "unparsable") =>
          /\ updates' = updates /\ errs' = errs /\ subError' = subError
          /\ UNCHANGED <<state, ws, listeners, msgQueue, persistentMsgs, readyState,
                         wire, nsock>>]_vars
  /\ [][(FrameStep /\ nframes >= 1 /\ lastFrame.type = "unparsable"
            /\ lastFrame'.type = "instance-update") =>
          \A i \in Subs :
            (Registered(i) /\ Matches(i, lastFrame') /\ Reached(lastFrame', i)) =>
               updates'[i] = Append(updates[i], enhanceState(lastFrame'.payload))]_vars

\* C34 witness: with two listeners registered on an open socket, an update has
\* reached the first one and the frame after it did not parse and reached nobody.
C34_Witness ==
  /\ nframes = 2 /\ lastFrame.type = "unparsable"
  /\ listeners = <<1, 2>> /\ SocketIsOpen
  /\ updates[1] = <<enhanceState(Payload(1))>>
  /\ errs = [i \in Subs |-> <<>>]

\* C35: while the cached credential carries no expiry, every token request is
\* answered with it at once and starts no refresh, whatever was cached before.
C35_NoExpiryNeverExpires ==
  [][\A c \in Calls :
       (TokenRequested(c) /\ Truthy(latestToken) /\ latestToken.exp = NoExp)
          => /\ CachedReturn(c)
             /\ callResult'[c] = Ok(latestToken)
             /\ ~RefreshStarts]_vars

\* the transport constructs socket s
ConnectionAttempt(s) == readyState[s] = "NONE" /\ readyState'[s] = "CONNECTING"
\* by its own exp claim and the skew the code allows, tok has expired
Expired(tok) == tok.exp # NoExp /\ tok.exp * 1000 < now - ExpirySkewMs

\* C36: the credential a connection attempt presents has not expired, and it
\* is the cached credential whenever a valid one is cached at that moment.
C36_FreshCredentialOnConnect ==
  [][\A s \in Sockets : ConnectionAttempt(s) =>
       /\ ~Expired(presented'[s])
       /\ ValidCached => presented'[s] = latestToken]_vars

\* the token request of subscription i's subscribe call is rejected
TokenFails(i) == subPc[i] = "awaitToken" /\ subPc'[i] = "tokenFailed"
\* the catch block of subscription i's subscribe call runs
CatchRuns(i) == subPc[i] = "tokenFailed" /\ subPc'[i] = "errored"
\* subscription i has a message in the persistent set
HasPersistent(i) == \E k \in 1..Len(persistentMsgs) : persistentMsgs[k].requestId = i

\* C40: when the token request of a subscribe call is rejected, the call's
\* catch block passes the rejection to the call's onError if it has one and to
\* nobody else, neither step constructs a transport or a socket or touches the
\* listeners and the message lists, the subscription never has a listener or a
\* persistent message, and while no call has got a token there is no transport.
C40_TokenFailureReported ==
  /\ [][\A i \in Subs : CatchRuns(i) =>
          /\ ~subResult[i].ok
          /\ errs'[i] = IF hasOnError[i] THEN Append(errs[i], subResult[i].err) ELSE errs[i]
          /\ \A j \in Subs \ {i} : errs'[j] = errs[j]
          /\ UNCHANGED <<transports, hasTransport, nsock, listeners, persistentMsgs,
                         msgQueue>>]_vars
  /\ [][\A i \in Subs : TokenFails(i) =>
          UNCHANGED <<transports, hasTransport, nsock, listeners, persistentMsgs,
                      msgQueue, errs>>]_vars
  /\ [](\A i \in Subs : subPc[i] \in {"tokenFailed", "errored"} =>
           (~Registered(i) /\ ~HasPersistent(i)))
  /\ []((\A i \in Subs : subPc[i] \in {"new", "awaitToken", "tokenFailed", "errored"})
          => (transports = 0 /\ nsock = 0))

\* C40 witness: the first subscribe call's token request was rejected and its
\* onError got the UnauthorizedError; the second call, made later, got a token
\* and is the only listener of the one transport.
C40_Witness ==
  /\ hasOnError[1] /\ subPc[1] = "errored" /\ errs[1] = <<"UnauthorizedError">>
  /\ subPc[2] = "subscribed" /\ errs[2] = <<>>
  /\ listeners = <<2>> /\ transports = 1
  /\ \A k \in 1..Len(persistentMsgs) : persistentMsgs[k].requestId = 2

\* C39: when a frame makes a registered subscription's callback throw, every
\* other registered subscription that the frame matches still gets the update,
\* and the socket and the transport's state stay as they are.
C39_ThrowDoesNotStarveOthers ==
  [][\A i, j \in Subs :
       (FrameStep /\ i # j /\ Registered(i) /\ Registered(j)
          /\ cbKind[i] = "throws" /\ Invokes(lastFrame', i) /\ Matches(j, lastFrame'))
         => /\ updates'[j] = Append(updates[j], enhanceState(lastFrame'.payload))
            /\ UNCHANGED <<state, ws, readyState, listeners>>]_vars

\* ---- C37
\* observer o is in the Actor's subscriber list
Attached(o) == o \in Range(actor.subscribers)
\* a state update reaches the Actor
UpdateArrives == Len(snapshots') = Len(snapshots) + 1
\* the next calls observer o got in this step
NewNexts(o) == SubSeq(seen'[o].nexts, Len(seen[o].nexts) + 1, Len(seen'[o].nexts))
\* how often observer o occurs in the subscriber list
Occurrences(o) == Cardinality({k \in DOMAIN actor.subscribers : actor.subscribers[k] = o})

\* C37: observers may detach themselves or one another inside next. An update
\* then still goes, once per attachment and with the new state, to every
\* observer that was attached when it arrived and is still attached after it;
\* no observer gets more calls than it had attachments; and an observer that
\* is not attached when a step begins gets no next call in that step.
C37_DetachInsideNext ==
  /\ [][UpdateArrives =>
          \A o \in Observers :
            /\ (Attached(o) /\ Attached(o)') =>
                 /\ Len(NewNexts(o)) = Occurrences(o)
                 /\ \A k \in DOMAIN NewNexts(o) : NewNexts(o)[k].state = Len(snapshots')
            /\ Len(NewNexts(o)) <= Occurrences(o)]_vars
  /\ [][\A o \in Observers : ~Attached(o) => seen'[o].nexts = seen[o].nexts]_vars
  /\ [](\A o \in Observers : Attached(o) => actor.unsubscribe \in remoteLive)
  /\ [](actor.subscribers = <<>> => actor.unsubscribe = NoUnsubscribe /\ remoteLive = {})

\* observers 1 and 2 were attached in that order, observer 1 ended its own
\* Subscription inside its first next call, observer 2 got that update and
\* the one after it, observer 1 only the first
C37_Witness ==
  /\ handles = <<1, 2>>
  /\ obsDetaches = <<1, NoObserver>>
  /\ ~Attached(1) /\ Attached(2)
  /\ Len(seen[1].nexts) = 1
  /\ Len(seen[2].nexts) = 2
  /\ seen[2].nexts[1].state = seen[1].nexts[1].state

\* ---- C38
\* C38: no callback of a subscription is invoked once its unsubscribe has run,
\* whether the caller ran it between two deliveries or a callback of another
\* listener ran it in the course of the delivery.
C38_NoCallAfterUnsubscribe == \A i \in Subs : late[i] = 0
====
